---- MODULE Spec2Model ----
(***************************************************************************)
(* Model of the Philips air purifier CoAP integration: the Coordinator    *)
(* (coordinator.py) with its listener registry, its observation task, its *)
(* reconnect tasks, its watchdog and its shutdown, and the write commands  *)
(* of the fan entity (philips.py).                                         *)
(*                                                                         *)
(* Everything runs on one asyncio event loop.  A step of the model is one  *)
(* piece of synchronous code between two suspension points (await), or one *)
(* listener invocation of a fan-out round.  While a fan-out round is in    *)
(* progress no other code of the loop runs.                                *)
(***************************************************************************)
EXTENDS Integers, Sequences, FiniteSets, TLC

(***************************************************************************)
(* Bounds of the model.                                                    *)
(***************************************************************************)
\* total number of async_add_listener calls in one run
MaxAdds == 3
\* total number of observation tasks async_add_listener creates in one run
MaxObsTasks == 2
\* total number of reconnect() calls in one run
MaxRecTasks == 2
\* total number of async_add_listener calls in one run of the life cycle
MaxListeners == 2
\* number of config entries async_setup_entry is called for in one run
MaxEntries == 2

(***************************************************************************)
(* Values.                                                                 *)
(***************************************************************************)
\* Coordinator._task is None
NoTask == 0

\* The listener callbacks: the _handle_coordinator_update bound methods of
\* the fan entity and of one other entity of the same config entry.
FanCb == "fan"
Callbacks == {FanCb, "sensor"}

\* States of an asyncio observation task:
\*   pending    created, its coroutine has not run yet
\*   observing  suspended in "async for", waiting for the next stream item
\*   cancelled  cancel() was called on it before it finished
\*   finished   the coroutine is over: the stream ended and it returned, or
\*              an exception (of the stream, of a listener) left it
TaskStates == {"pending", "observing", "cancelled", "finished"}
ActiveStates == {"pending", "observing"}

\* The status snapshots the device pushes on the observe stream, and the one
\* stored in the config entry at setup.  A snapshot is a dict: a function
\* from the keys it holds to their values (keys of PhilipsCX5120).
DeviceSnapshots ==
    { [NEW2_POWER |-> 1, NEW2_MODE_A |-> 3, NEW2_MODE_B |-> 0, NEW2_OSCILLATION |-> 0],
      [NEW2_POWER |-> 0, NEW2_MODE_A |-> 3, NEW2_MODE_B |-> 66, NEW2_OSCILLATION |-> 0] }

(***************************************************************************)
(* The fan entity: PhilipsCX5120, a PhilipsNew2GenericCoAPFan, which       *)
(* inherits every command of PhilipsGenericCoAPFanBase unchanged.  Key and *)
(* preset names are the names of the PhilipsApi and PresetMode constants.  *)
(***************************************************************************)
KEY_PHILIPS_POWER == "NEW2_POWER"
STATE_POWER_ON == 1
STATE_POWER_OFF == 0

\* dicts keep insertion order: a table is a sequence of <<key, pattern>>
AVAILABLE_PRESET_MODES ==
    << <<"AUTO",        [NEW2_POWER |-> 1, NEW2_MODE_A |-> 3, NEW2_MODE_B |-> 0]>>,
       <<"HIGH",        [POWER |-> 1, NEW2_MODE_A |-> 3, NEW2_MODE_B |-> 65]>>,
       <<"LOW",         [POWER |-> 1, NEW2_MODE_A |-> 3, NEW2_MODE_B |-> 66]>>,
       <<"VENTILATION", [POWER |-> 1, NEW2_MODE_A |-> 1, NEW2_MODE_B |-> -127]>> >>

AVAILABLE_SPEEDS ==
    << <<"HIGH", [POWER |-> 1, NEW2_MODE_A |-> 3, NEW2_MODE_B |-> 65]>>,
       <<"LOW",  [POWER |-> 1, NEW2_MODE_A |-> 3, NEW2_MODE_B |-> 66]>> >>

\* KEY_OSCILLATION = {NEW2_OSCILLATION: OSCILLATION_MAP}; the map gives the
\* values written for SWITCH_ON and SWITCH_OFF
KEY_OSCILLATION == [key |-> "NEW2_OSCILLATION", SWITCH_ON |-> 17920, SWITCH_OFF |-> 0]

\* percentage=None of async_turn_on
NoPercentage == -1
\* preset_mode=None of async_turn_on
NoPreset == "None"

\* The arguments the commands are called with.
Percentages == {0, 50}
PresetArgs == {"LOW", "UNKNOWN"}

VARIABLES
    _listeners,     \* Coordinator._listeners: the sequence of callbacks
    regs,           \* ghost: for each element of _listeners, the number of
                    \* the async_add_listener call that appended it
    handles,        \* the remove_listener closures handed out so far
    nAdds,          \* number of async_add_listener calls so far
    _task,          \* Coordinator._task: NoTask or an index into obsTasks
    obsTasks,       \* every observation task created so far, by creation order
    lastExc,        \* what the last add/remove call raised, "none" if nothing
    status,         \* Coordinator.status: the current snapshot
    latest_status,  \* ConfigEntryData.latest_status
    cmd,            \* the write command of the fan entity in flight: where
                    \* it is (pc), the data it writes and the pattern it
                    \* stores on success; as ghost fields the status when
                    \* it began (status0), the status the Coordinator
                    \* would hold without the command (base: status0, or
                    \* the last snapshot pushed since it began),
                    \* the callbacks registered when it began (listeners0),
                    \* the invocations of each callback since it began
                    \* (seen) and those made by the command itself (own)
    client,         \* Coordinator.client: an index into sessions
    sessions,       \* every device client session made so far, by creation
                    \* order; session 1 is the one async_setup_entry made
    obsClient,      \* for each observation task suspended in "async for":
                    \* the session whose observe_status() stream it consumes
    _reconnect_task, \* Coordinator._reconnect_task: NoTask or an index into
                    \* recTasks
    recTasks,       \* every reconnect task created so far, by creation order
    _timer_disconnected, \* the watchdog Timer: whether it runs and the
                    \* intervals left until it expires
    down,           \* where Coordinator.shutdown is (pc): "no" not called,
                    \* "closing" awaiting client.shutdown(), "returned",
                    \* "raised"; as a ghost field whether no observation
                    \* task and no reconnect task was active when it was
                    \* called (idle)
    setup,          \* for each config entry being set up: where its
                    \* async_setup_entry call is (pc), the seconds the
                    \* creation of its client has been awaited, the mac
                    \* address found, the exception that left the call; as
                    \* ghost fields the number of CoAPClient.create calls it
                    \* made and whether it constructed a Coordinator
    hass_data,      \* hass.data[DOMAIN]: for each entry id stored, its
                    \* ConfigEntryData
    loaded,         \* the entries whose platforms were set up
    unload,         \* where async_unload_entry of the Coordinator's config
                    \* entry is (pc): "none" not called, "platforms"
                    \* awaiting the unload of a platform, "shutdown" awaiting
                    \* coordinator.shutdown(), "returned", "raised"; and the
                    \* number of platforms unloaded so far
    fan,            \* a fan entity of some model class: the class and its
                    \* ancestors (mro), whether __init__ has run, the tables
                    \* and key lists __init__ collected, the device status
                    \* its Coordinator holds and what the preset_mode
                    \* property returned when it was last read
    round           \* the fan-out round of _async_observe_status: whether
                    \* one is running (open), the task running it, the
                    \* index of the next listener in _listeners, whether a
                    \* listener raised (exc); as ghost fields the snapshot
                    \* that started it, the registrations at that time and
                    \* the invocations made

lvars == <<_listeners, regs, handles, nAdds, _task, obsTasks, lastExc>>
ovars == <<status, latest_status, round>>
\* the device client, the reconnect tasks, the watchdog and shutdown
cvars == <<client, sessions, _reconnect_task, recTasks, _timer_disconnected, down>>
\* the config entries (their setup calls, hass.data and the platforms) and
\* the fan entity of another model
svars == <<setup, hass_data, loaded, fan, unload>>
vars == <<_listeners, regs, handles, nAdds, _task, obsTasks, lastExc,
          status, latest_status, round, cmd,
          client, sessions, obsClient, _reconnect_task, recTasks,
          _timer_disconnected, down, setup, hass_data, loaded, fan,
          unload>>

(***************************************************************************)
(* Helpers on sequences.                                                   *)
(***************************************************************************)
Range(s) == {s[i] : i \in 1..Len(s)}

\* s without its i-th element
RemoveAt(s, i) == [j \in 1..(Len(s) - 1) |-> IF j < i THEN s[j] ELSE s[j + 1]]

\* list.index(x): the first position of x in s (x is in s)
Min(a, b) == IF a < b THEN a ELSE b

IndexOf(s, x) == CHOOSE i \in 1..Len(s) : s[i] = x /\ \A j \in 1..(i - 1) : s[j] # x

(***************************************************************************)
(* asyncio.Task.cancel(): a task that has not finished is cancelled, a     *)
(* finished one is left as it is.                                          *)
(***************************************************************************)
Cancel(tasks, t) ==
    IF tasks[t] \in ActiveStates THEN [tasks EXCEPT ![t] = "cancelled"] ELSE tasks

(***************************************************************************)
(* The streams in use once the observation tasks are as in tasks: a task   *)
(* that is over has left its stream.                                       *)
(***************************************************************************)
Consumed(tasks) ==
    [t \in {u \in DOMAIN obsClient : tasks[u] = "observing"} |-> obsClient[t]]

(***************************************************************************)
(* Coordinator._start_observing: cancel the held task if there is one,     *)
(* then create a new observation task and hold it.                         *)
(***************************************************************************)
(***************************************************************************)
(* Synchronous code is running on the event loop: a fan-out round, or the  *)
(* caller of a write command that has just returned or raised and now      *)
(* looks at the result.  Nothing else runs until it is through.            *)
(***************************************************************************)
Busy == round.open \/ cmd.pc \in {"returned", "raised"}

\* Mutant of _start_observing: the held task is not cancelled.
_start_observing_without_cancel ==
    /\ obsTasks' = Append(obsTasks, "pending")
    /\ _task' = Len(obsTasks) + 1

_start_observing ==
    /\ obsTasks' = Append(IF _task # NoTask THEN Cancel(obsTasks, _task) ELSE obsTasks,
                          "pending")
    /\ _task' = Len(obsTasks) + 1

(***************************************************************************)
(* Mutant of async_add_listener: the "if start_observing" test is lost and *)
(* every call starts the observation.                                      *)
(***************************************************************************)
async_add_listener_always_starts(update_callback) ==
    /\ ~Busy
    /\ nAdds < MaxAdds
    /\ Len(obsTasks) < MaxObsTasks
    /\ _listeners' = Append(_listeners, update_callback)
    /\ regs' = Append(regs, nAdds + 1)
    /\ nAdds' = nAdds + 1
    /\ handles' = handles \cup {[cb |-> update_callback, reg |-> nAdds + 1]}
    /\ _start_observing
    /\ lastExc' = "none"
    /\ UNCHANGED <<ovars, cmd>>
    /\ obsClient' = Consumed(obsTasks')
    /\ UNCHANGED svars
    /\ UNCHANGED cvars

(***************************************************************************)
(* Coordinator.async_add_listener(update_callback).                        *)
(***************************************************************************)
async_add_listener(update_callback) ==
    /\ ~Busy
    /\ nAdds < MaxAdds
    /\ _listeners = <<>> => Len(obsTasks) < MaxObsTasks
    /\ _listeners' = Append(_listeners, update_callback)
    /\ regs' = Append(regs, nAdds + 1)
    /\ nAdds' = nAdds + 1
    /\ handles' = handles \cup {[cb |-> update_callback, reg |-> nAdds + 1]}
    /\ IF _listeners = <<>>
         THEN _start_observing
         ELSE UNCHANGED <<_task, obsTasks>>
    /\ lastExc' = "none"
    /\ UNCHANGED <<ovars, cmd>>
    /\ obsClient' = Consumed(obsTasks')
    /\ UNCHANGED svars
    /\ UNCHANGED cvars

(***************************************************************************)
(* Mutant of async_remove_listener: the "not self._listeners" test is lost *)
(* and every removal cancels the held task.                                *)
(***************************************************************************)
async_remove_listener_always_cancels(update_callback) ==
    /\ ~Busy
    /\ UNCHANGED <<ovars, cmd>>
    /\ IF update_callback \notin Range(_listeners)
         THEN /\ lastExc' = "ValueError"
              /\ UNCHANGED <<_listeners, regs, handles, nAdds, _task, obsTasks>>
         ELSE LET i == IndexOf(_listeners, update_callback)
              IN  /\ _listeners' = RemoveAt(_listeners, i)
                  /\ regs' = RemoveAt(regs, i)
                  /\ IF _task # NoTask
                       THEN /\ obsTasks' = Cancel(obsTasks, _task)
                            /\ _task' = NoTask
                       ELSE UNCHANGED <<_task, obsTasks>>
                  /\ lastExc' = "none"
                  /\ UNCHANGED <<handles, nAdds>>
    /\ obsClient' = Consumed(obsTasks')
    /\ UNCHANGED svars
    /\ UNCHANGED cvars

(***************************************************************************)
(* Mutant of async_remove_listener: the last occurrence of the callback is *)
(* removed instead of the first.                                           *)
(***************************************************************************)
async_remove_listener_removes_last(update_callback) ==
    /\ ~Busy
    /\ UNCHANGED <<ovars, cmd>>
    /\ IF update_callback \notin Range(_listeners)
         THEN /\ lastExc' = "ValueError"
              /\ UNCHANGED <<_listeners, regs, handles, nAdds, _task, obsTasks>>
         ELSE LET i == CHOOSE k \in 1..Len(_listeners) :
                          /\ _listeners[k] = update_callback
                          /\ \A j \in (k + 1)..Len(_listeners) :
                                 _listeners[j] # update_callback
                  rest == RemoveAt(_listeners, i)
              IN  /\ _listeners' = rest
                  /\ regs' = RemoveAt(regs, i)
                  /\ IF rest = <<>> /\ _task # NoTask
                       THEN /\ obsTasks' = Cancel(obsTasks, _task)
                            /\ _task' = NoTask
                       ELSE UNCHANGED <<_task, obsTasks>>
                  /\ lastExc' = "none"
                  /\ UNCHANGED <<handles, nAdds>>
    /\ obsClient' = Consumed(obsTasks')
    /\ UNCHANGED svars
    /\ UNCHANGED cvars

(***************************************************************************)
(* Mutant of async_remove_listener: the callback stays in the list; the    *)
(* held task is cancelled when it is the only one.                         *)
(***************************************************************************)
async_remove_listener_keeps_callback(update_callback) ==
    /\ ~Busy
    /\ UNCHANGED <<ovars, cmd>>
    /\ IF update_callback \notin Range(_listeners)
         THEN /\ lastExc' = "ValueError"
              /\ UNCHANGED <<_listeners, regs, handles, nAdds, _task, obsTasks>>
         ELSE /\ UNCHANGED <<_listeners, regs>>
              /\ IF Len(_listeners) = 1 /\ _task # NoTask
                   THEN /\ obsTasks' = Cancel(obsTasks, _task)
                        /\ _task' = NoTask
                   ELSE UNCHANGED <<_task, obsTasks>>
              /\ lastExc' = "none"
              /\ UNCHANGED <<handles, nAdds>>
    /\ obsClient' = Consumed(obsTasks')
    /\ UNCHANGED svars
    /\ UNCHANGED cvars

(***************************************************************************)
(* Coordinator.async_remove_listener(update_callback).  list.remove raises *)
(* ValueError when the callback is not in the list, and removes its first  *)
(* occurrence otherwise.                                                   *)
(***************************************************************************)
async_remove_listener(update_callback) ==
    /\ ~Busy
    /\ UNCHANGED <<ovars, cmd>>
    /\ IF update_callback \notin Range(_listeners)
         THEN /\ lastExc' = "ValueError"
              /\ UNCHANGED <<_listeners, regs, handles, nAdds, _task, obsTasks>>
         ELSE LET i == IndexOf(_listeners, update_callback)
                  rest == RemoveAt(_listeners, i)
              IN  /\ _listeners' = rest
                  /\ regs' = RemoveAt(regs, i)
                  /\ IF rest = <<>> /\ _task # NoTask
                       THEN /\ obsTasks' = Cancel(obsTasks, _task)
                            /\ _task' = NoTask
                       ELSE UNCHANGED <<_task, obsTasks>>
                  /\ lastExc' = "none"
                  /\ UNCHANGED <<handles, nAdds>>
    /\ obsClient' = Consumed(obsTasks')
    /\ UNCHANGED svars
    /\ UNCHANGED cvars

(***************************************************************************)
(* The remove_listener closure returned by async_add_listener: it calls    *)
(* async_remove_listener with the callback it was created for.             *)
(***************************************************************************)
remove_listener(h) == async_remove_listener(h.cb)

(***************************************************************************)
(* PhilipsEntity._handle_coordinator_update, the callback every entity     *)
(* registers: it stores the Coordinator's status in latest_status and then *)
(* writes the entity state, which may raise.  device_status is what the    *)
(* _device_status property (coordinator.status) returns when it runs; the  *)
(* caller decides what an exception of the state write does.               *)
(***************************************************************************)
_handle_coordinator_update(device_status) == latest_status' = device_status

NoRound == [open |-> FALSE, task |-> NoTask, i |-> 0, exc |-> FALSE,
            snap |-> <<>>, regs0 |-> <<>>, calls |-> <<>>]

(***************************************************************************)
(* Coordinator._async_observe_status.                                      *)
(*                                                                         *)
(* ObserveBegin: the task's coroutine runs for the first time, opens the   *)
(* stream client.observe_status() and suspends waiting for its first item. *)
(***************************************************************************)
ObserveBegin(t) ==
    /\ ~Busy
    /\ obsTasks[t] = "pending"
    /\ obsTasks' = [obsTasks EXCEPT ![t] = "observing"]
    /\ UNCHANGED <<_listeners, regs, handles, nAdds, _task, lastExc>>
    /\ UNCHANGED <<ovars, cmd>>
    /\ obsClient' = (t :> client) @@ Consumed(obsTasks')
    /\ UNCHANGED svars
    /\ UNCHANGED cvars

\* Mutant of ObserveItem: the snapshot is merged into the status dict
\* (self.status.update(status)), keys it does not carry stay.
ObserveItem_merges(t, snapshot) ==
    /\ ~Busy
    /\ obsTasks[t] = "observing"
    /\ sessions[obsClient[t]] = "open"
    /\ status' = [k \in DOMAIN status \cup DOMAIN snapshot |->
                      IF k \in DOMAIN snapshot THEN snapshot[k] ELSE status[k]]
    /\ round' = [open |-> TRUE, task |-> t, i |-> 1, exc |-> FALSE,
                 snap |-> snapshot, regs0 |-> regs, calls |-> <<>>]
    /\ cmd' = IF cmd.pc = "await" THEN [cmd EXCEPT !.base = snapshot] ELSE cmd
    /\ UNCHANGED latest_status
    /\ UNCHANGED lvars
    /\ obsClient' = Consumed(obsTasks')
    /\ UNCHANGED svars
    /\ UNCHANGED cvars

\* Mutant of ObserveItem: the loop takes the next item while synchronous
\* code (a fan-out round) is still running.
ObserveItem_while_busy(t, snapshot) ==
    /\ obsTasks[t] = "observing"
    /\ sessions[obsClient[t]] = "open"
    /\ status' = snapshot
    /\ round' = [open |-> TRUE, task |-> t, i |-> 1, exc |-> FALSE,
                 snap |-> snapshot, regs0 |-> regs, calls |-> <<>>]
    /\ cmd' = IF cmd.pc = "await" THEN [cmd EXCEPT !.base = snapshot] ELSE cmd
    /\ UNCHANGED latest_status
    /\ UNCHANGED lvars
    /\ obsClient' = Consumed(obsTasks')
    /\ UNCHANGED svars
    /\ UNCHANGED cvars

(***************************************************************************)
(* ObserveItem: the stream yields a snapshot.  The task stores it in       *)
(* self.status and enters "for update_callback in self._listeners".  The   *)
(* stream of a session that was shut down yields nothing more.             *)
(***************************************************************************)
ObserveItem(t, snapshot) ==
    /\ ~Busy
    /\ obsTasks[t] = "observing"
    /\ sessions[obsClient[t]] = "open"
    /\ status' = snapshot
    /\ round' = [open |-> TRUE, task |-> t, i |-> 1, exc |-> FALSE,
                 snap |-> snapshot, regs0 |-> regs, calls |-> <<>>]
    /\ cmd' = IF cmd.pc = "await" THEN [cmd EXCEPT !.base = snapshot] ELSE cmd
    /\ UNCHANGED latest_status
    /\ UNCHANGED lvars
    /\ obsClient' = Consumed(obsTasks')
    /\ UNCHANGED svars
    /\ UNCHANGED cvars

(***************************************************************************)
(* InvokeListener: one iteration of the for loop, update_callback().  The  *)
(* list iterator reads _listeners[i]; the loop is over when i passes the   *)
(* end of the list or a callback raised.                                   *)
(***************************************************************************)
InvokeListener(raises) ==
    /\ round.open
    /\ ~round.exc
    /\ round.i <= Len(_listeners)
    /\ _handle_coordinator_update(status)
    /\ round' = [round EXCEPT
                   !.i = @ + 1,
                   !.exc = raises,
                   !.calls = Append(@, [reg |-> regs[round.i], read |-> status])]
    /\ cmd' = IF cmd.pc = "await"
                THEN [cmd EXCEPT !.seen[_listeners[round.i]] = Min(@ + 1, 2)]
                ELSE cmd
    /\ UNCHANGED <<lvars, status>>
    /\ obsClient' = Consumed(obsTasks')
    /\ UNCHANGED svars
    /\ UNCHANGED cvars

(***************************************************************************)
(* One iteration of the for loop whose callback, besides its update, calls *)
(* async_remove_listener(update_callback) for a registered callback (its   *)
(* own or another one): list.remove shifts the later elements to the left  *)
(* under the list iterator, which goes on at its next index.  When the     *)
(* list becomes empty the running task is cancelled; it leaves the loop at *)
(* its next await.                                                          *)
(***************************************************************************)
InvokeListener_removes(update_callback) ==
    /\ round.open
    /\ ~round.exc
    /\ round.i <= Len(_listeners)
    /\ update_callback \in Range(_listeners)
    /\ _handle_coordinator_update(status)
    /\ LET i == IndexOf(_listeners, update_callback)
           rest == RemoveAt(_listeners, i)
       IN  /\ _listeners' = rest
           /\ regs' = RemoveAt(regs, i)
           /\ IF rest = <<>> /\ _task # NoTask
                THEN /\ obsTasks' = Cancel(obsTasks, _task)
                     /\ _task' = NoTask
                ELSE UNCHANGED <<_task, obsTasks>>
    /\ round' = [round EXCEPT
                   !.i = @ + 1,
                   !.calls = Append(@, [reg |-> regs[round.i], read |-> status])]
    /\ lastExc' = "none"
    /\ UNCHANGED <<handles, nAdds, status, cmd>>
    /\ obsClient' = Consumed(obsTasks')
    /\ UNCHANGED svars
    /\ UNCHANGED cvars

(***************************************************************************)
(* One iteration of the for loop whose callback, besides its update, calls *)
(* async_add_listener(update_callback): the registry is not empty, the     *)
(* callback is appended and the list iterator will reach it.               *)
(***************************************************************************)
InvokeListener_adds(update_callback) ==
    /\ round.open
    /\ ~round.exc
    /\ round.i <= Len(_listeners)
    /\ nAdds < MaxAdds
    /\ _handle_coordinator_update(status)
    /\ _listeners' = Append(_listeners, update_callback)
    /\ regs' = Append(regs, nAdds + 1)
    /\ nAdds' = nAdds + 1
    /\ handles' = handles \cup {[cb |-> update_callback, reg |-> nAdds + 1]}
    /\ round' = [round EXCEPT
                   !.i = @ + 1,
                   !.calls = Append(@, [reg |-> regs[round.i], read |-> status])]
    /\ lastExc' = "none"
    /\ UNCHANGED <<_task, obsTasks, status, cmd>>
    /\ obsClient' = Consumed(obsTasks')
    /\ UNCHANGED svars
    /\ UNCHANGED cvars

(***************************************************************************)
(* RoundOver: the for loop is left.  When it ran to the end of the list    *)
(* the task suspends in "async for" again.  An exception raised by a       *)
(* callback leaves the coroutine, which has no handler: the task is over.  *)
(***************************************************************************)
RoundOver ==
    /\ round.open
    /\ round.exc \/ round.i > Len(_listeners)
    /\ obsTasks' = IF round.exc THEN [obsTasks EXCEPT ![round.task] = "finished"]
                                ELSE obsTasks
    /\ round' = NoRound
    /\ UNCHANGED <<_listeners, regs, handles, nAdds, _task, lastExc>>
    /\ UNCHANGED <<status, latest_status, cmd>>
    /\ obsClient' = Consumed(obsTasks')
    /\ UNCHANGED svars
    /\ UNCHANGED cvars

\* Mutant of ObserveEnd: the Coordinator clears its status when the stream
\* is lost.
ObserveEnd_clears_status(t) ==
    /\ ~Busy
    /\ obsTasks[t] = "observing"
    /\ obsTasks' = [obsTasks EXCEPT ![t] = "finished"]
    /\ status' = <<>>
    /\ UNCHANGED <<_listeners, regs, handles, nAdds, _task, lastExc>>
    /\ UNCHANGED <<latest_status, round, cmd>>
    /\ obsClient' = Consumed(obsTasks')
    /\ UNCHANGED svars
    /\ UNCHANGED cvars

(***************************************************************************)
(* ObserveEnd: the stream of an observing task ends (the coroutine         *)
(* returns) or raises (the exception leaves the coroutine).                *)
(***************************************************************************)
ObserveEnd(t) ==
    /\ ~Busy
    /\ obsTasks[t] = "observing"
    /\ obsTasks' = [obsTasks EXCEPT ![t] = "finished"]
    /\ UNCHANGED <<_listeners, regs, handles, nAdds, _task, lastExc>>
    /\ UNCHANGED <<ovars, cmd>>
    /\ obsClient' = Consumed(obsTasks')
    /\ UNCHANGED svars
    /\ UNCHANGED cvars

(***************************************************************************)
(* The fan entity's tables and helpers.                                    *)
(***************************************************************************)
\* dict.get(key) on a table; <<>> stands for None (both are falsy)
Get(table, key) ==
    LET hits == {i \in 1..Len(table) : table[i][1] = key}
    IN  IF hits = {} THEN <<>> ELSE table[CHOOSE i \in hits : TRUE][2]

\* list(table.keys())
Keys(table) == [i \in 1..Len(table) |-> table[i][1]]

\* _collect_available_preset_modes / _collect_available_speeds: every base
\* class of PhilipsCX5120 has empty tables, the merge is the class's own
_available_preset_modes == AVAILABLE_PRESET_MODES
_available_speeds == AVAILABLE_SPEEDS
_speeds == Keys(_available_speeds)

\* dict.update(pattern), and d[key] = value for a one-key pattern
Update(device_status, pattern) ==
    [k \in DOMAIN device_status \cup DOMAIN pattern |->
        IF k \in DOMAIN pattern THEN pattern[k] ELSE device_status[k]]

\* homeassistant.util.percentage.percentage_to_ordered_list_item: the first
\* item whose upper bound (position * 100) // len reaches the percentage,
\* the last item when none does
percentage_to_ordered_list_item(ordered_list, percentage) ==
    LET list_len == Len(ordered_list)
        fits == {i \in 1..list_len : percentage <= (i * 100) \div list_len}
    IN  IF fits = {} THEN ordered_list[list_len]
        ELSE ordered_list[CHOOSE i \in fits : \A j \in fits : i <= j]

(***************************************************************************)
(* The write commands of PhilipsGenericCoAPFanBase.  Each one awaits at    *)
(* most one device write.  An operator gives what the command does: the    *)
(* data it hands to client.set_control_value(s) (write is FALSE when it    *)
(* returns without writing), the pattern it stores in the status after the *)
(* write succeeded, and whether it then calls _handle_coordinator_update.  *)
(***************************************************************************)
NoWrite == [write |-> FALSE, data |-> <<>>, store |-> <<>>, notify |-> FALSE]

async_turn_off ==
    [write |-> TRUE,
     data |-> KEY_PHILIPS_POWER :> STATE_POWER_OFF,
     store |-> KEY_PHILIPS_POWER :> STATE_POWER_OFF,
     notify |-> TRUE]

async_set_preset_mode(preset_mode) ==
    LET status_pattern == Get(_available_preset_modes, preset_mode)
    IN  IF status_pattern # <<>>
          THEN [write |-> TRUE, data |-> status_pattern,
                store |-> status_pattern, notify |-> TRUE]
          ELSE NoWrite

\* Mutant of async_set_percentage: percentage 0 is no special case, it is
\* mapped to a speed like any other.
async_set_percentage_zero_is_a_speed(percentage) ==
    LET speed == percentage_to_ordered_list_item(_speeds, percentage)
        status_pattern == Get(_available_speeds, speed)
    IN  IF status_pattern # <<>>
          THEN [write |-> TRUE, data |-> status_pattern,
                store |-> <<>>, notify |-> TRUE]
          ELSE NoWrite

\* the speed branch writes the pattern and notifies, but does not store it
async_set_percentage(percentage) ==
    IF percentage = 0
      THEN async_turn_off
      ELSE LET speed == percentage_to_ordered_list_item(_speeds, percentage)
               status_pattern == Get(_available_speeds, speed)
           IN  IF status_pattern # <<>>
                 THEN [write |-> TRUE, data |-> status_pattern,
                       store |-> <<>>, notify |-> TRUE]
                 ELSE NoWrite

\* Mutant of async_turn_on: the percentage is looked at before the preset
\* mode.
async_turn_on_percentage_first(percentage, preset_mode) ==
    IF percentage # NoPercentage /\ percentage # 0
      THEN async_set_percentage(percentage)
      ELSE IF preset_mode # NoPreset
             THEN async_set_preset_mode(preset_mode)
             ELSE [write |-> TRUE,
                   data |-> KEY_PHILIPS_POWER :> STATE_POWER_ON,
                   store |-> KEY_PHILIPS_POWER :> STATE_POWER_ON,
                   notify |-> TRUE]

async_turn_on(percentage, preset_mode) ==
    IF preset_mode # NoPreset
      THEN async_set_preset_mode(preset_mode)
      ELSE IF percentage # NoPercentage /\ percentage # 0
             THEN async_set_percentage(percentage)
             ELSE [write |-> TRUE,
                   data |-> KEY_PHILIPS_POWER :> STATE_POWER_ON,
                   store |-> KEY_PHILIPS_POWER :> STATE_POWER_ON,
                   notify |-> TRUE]

async_oscillate(oscillating) ==
    LET key == KEY_OSCILLATION.key
        on_value == KEY_OSCILLATION.SWITCH_ON
        off == KEY_OSCILLATION.SWITCH_OFF
        value == IF oscillating THEN on_value ELSE off
    IN  [write |-> TRUE, data |-> key :> value, store |-> key :> value,
         notify |-> TRUE]

Idle == [pc |-> "idle", data |-> <<>>, store |-> <<>>, notify |-> FALSE,
         result |-> "none", status0 |-> <<>>, base |-> <<>>, listeners0 |-> {},
         seen |-> [c \in Callbacks |-> 0], own |-> 0]

(***************************************************************************)
(* A command is called: it runs up to its await of the device write.  Home *)
(* Assistant calls the commands of an entity that was added to hass, whose *)
(* async_added_to_hass registered its callback.  One command is in flight  *)
(* at a time.                                                              *)
(***************************************************************************)
Call(command) ==
    /\ ~Busy
    /\ cmd.pc = "idle"
    /\ FanCb \in Range(_listeners)
    /\ cmd' = [Idle EXCEPT
                 !.pc = IF command.write THEN "await" ELSE "returned",
                 !.data = command.data,
                 !.store = command.store,
                 !.notify = command.notify,
                 !.status0 = status,
                 !.base = status,
                 !.listeners0 = Range(_listeners)]
    /\ UNCHANGED <<lvars, ovars>>
    /\ obsClient' = Consumed(obsTasks')
    /\ UNCHANGED svars
    /\ UNCHANGED cvars

(***************************************************************************)
(* The awaited device write completes.  On success the command stores its  *)
(* pattern in the status dict and calls its own _handle_coordinator_update *)
(* (whose state write may raise); on failure the exception of the write    *)
(* leaves the command.                                                     *)
(***************************************************************************)
WriteSucceeds(raises) ==
    /\ ~Busy
    /\ cmd.pc = "await"
    /\ raises => cmd.notify
    /\ status' = Update(status, cmd.store)
    /\ IF cmd.notify
         THEN _handle_coordinator_update(status')
         ELSE UNCHANGED latest_status
    /\ cmd' = [cmd EXCEPT
                 !.pc = IF raises THEN "raised" ELSE "returned",
                 !.result = "ok",
                 !.seen[FanCb] = IF cmd.notify THEN Min(@ + 1, 2) ELSE @,
                 !.own = IF cmd.notify THEN 1 ELSE 0]
    /\ UNCHANGED <<lvars, round>>
    /\ obsClient' = Consumed(obsTasks')
    /\ UNCHANGED svars
    /\ UNCHANGED cvars

(***************************************************************************)
(* Mutant of WriteFails: the pattern is stored before the write is         *)
(* awaited, so a failed write leaves it in the status.                     *)
(***************************************************************************)
WriteFails_after_storing ==
    /\ ~Busy
    /\ cmd.pc = "await"
    /\ status' = Update(status, cmd.store)
    /\ cmd' = [cmd EXCEPT !.pc = "raised", !.result = "failed"]
    /\ UNCHANGED <<lvars, latest_status, round>>
    /\ obsClient' = Consumed(obsTasks')
    /\ UNCHANGED svars
    /\ UNCHANGED cvars

WriteFails ==
    /\ ~Busy
    /\ cmd.pc = "await"
    /\ cmd' = [cmd EXCEPT !.pc = "raised", !.result = "failed"]
    /\ UNCHANGED <<lvars, ovars>>
    /\ obsClient' = Consumed(obsTasks')
    /\ UNCHANGED svars
    /\ UNCHANGED cvars

(***************************************************************************)
(* The caller of the command has looked at its result.                     *)
(***************************************************************************)
CommandOver ==
    /\ ~round.open
    /\ cmd.pc \in {"returned", "raised"}
    /\ cmd' = Idle
    /\ UNCHANGED <<lvars, ovars>>
    /\ obsClient' = Consumed(obsTasks')
    /\ UNCHANGED svars
    /\ UNCHANGED cvars

(***************************************************************************)
(* The device client sessions (aioairctrl.CoAPClient).  A session is       *)
(*   creating   CoAPClient.create(host) is awaited by a reconnect attempt  *)
(*   open       created                                                     *)
(*   closed     client.shutdown() was called on it                         *)
(*   failed     its creation raised                                         *)
(*   discarded  the attempt creating it was cancelled during the creation  *)
(***************************************************************************)
NoSession == 0

(***************************************************************************)
(* The reconnect tasks.  A task is at                                       *)
(*   pending    created by reconnect(), _reconnect has not run yet          *)
(*   closing    awaiting self.client.shutdown()                             *)
(*   creating   awaiting CoAPClient.create(self.host)                       *)
(*   cancelled  cancel() was called on it before it finished                *)
(*   finished   _reconnect is over                                          *)
(* exit tells how its coroutine ended: "returned", "raised", or "cancelled" *)
(* for a task cancelled before it ever ran.  Ghost fields: the steps it    *)
(* has taken (log), whether the close raised, the session it created, the  *)
(* observation task it started and who called reconnect().                 *)
(***************************************************************************)
RecActive == {"pending", "closing", "creating"}

NewRecTask(by) ==
    [pc |-> "pending", exit |-> "none", session |-> NoSession, log |-> <<>>,
     closeRaised |-> FALSE, started |-> NoTask, by |-> by]

(***************************************************************************)
(* The except clauses of _reconnect: how the coroutine ends when exc is     *)
(* raised inside its try block.                                             *)
(***************************************************************************)
\* Mutant of _reconnect_except: the bare except clause is missing.
_reconnect_except_reraises(exc) ==
    IF exc = "CancelledError" THEN "returned" ELSE "raised"

_reconnect_except(exc) ==
    IF exc = "CancelledError"
      THEN "returned"     \* except asyncio.CancelledError: pass
      ELSE "returned"     \* except: _LOGGER.exception(...)

(***************************************************************************)
(* asyncio.Task.cancel() on a reconnect task: CancelledError is thrown     *)
(* into _reconnect at the await it is suspended in (a task that has not    *)
(* run yet never runs), so the attempt takes no further step; a finished   *)
(* task is left as it is.  CancelledError is no Exception: it passes       *)
(* contextlib.suppress(Exception).                                          *)
(***************************************************************************)
CancelRec(tasks, r) ==
    IF tasks[r].pc \in RecActive
      THEN [tasks EXCEPT ![r].pc = "cancelled",
                         ![r].exit = IF tasks[r].pc = "pending"
                                       THEN "cancelled"
                                       ELSE _reconnect_except("CancelledError")]
      ELSE tasks

\* the session a cancelled attempt was creating is dropped
Discard(sess, tasks, r) ==
    IF tasks[r].pc = "creating"
      THEN [sess EXCEPT ![tasks[r].session] = "discarded"]
      ELSE sess

(***************************************************************************)
(* The watchdog Timer(timeout, callback, autostart=False) with             *)
(* auto_restart: a restartable countdown that invokes its callback when it *)
(* expires without having been reset.  Time is counted in base intervals   *)
(* (Coordinator._timeout seconds): the timeout is MISSED_PACKAGE_COUNT     *)
(* intervals.                                                               *)
(***************************************************************************)
MISSED_PACKAGE_COUNT == 3
timeout == MISSED_PACKAGE_COUNT

TimerStopped == [running |-> FALSE, left |-> 0]
TimerReset == [running |-> TRUE, left |-> timeout]
TimerCancel == TimerStopped

\* Mutant of reconnect: the held reconnect task is dropped without cancel().
reconnect_without_cancel(by) ==
    /\ Len(recTasks) < MaxRecTasks
    /\ recTasks' = Append(recTasks, NewRecTask(by))
    /\ sessions' = sessions
    /\ _reconnect_task' = Len(recTasks) + 1

(***************************************************************************)
(* Coordinator.reconnect(): cancel and drop the held reconnect task if     *)
(* there is one, then create a new one and hold it.  Nothing in its try    *)
(* block raises.                                                            *)
(***************************************************************************)
reconnect(by) ==
    /\ Len(recTasks) < MaxRecTasks
    /\ recTasks' = Append(IF _reconnect_task # NoTask
                            THEN CancelRec(recTasks, _reconnect_task)
                            ELSE recTasks,
                          NewRecTask(by))
    /\ sessions' = IF _reconnect_task # NoTask
                     THEN Discard(sessions, recTasks, _reconnect_task)
                     ELSE sessions
    /\ _reconnect_task' = Len(recTasks) + 1

\* what the listener registry, the fan-out round and the commands leave alone
\* in a step of a reconnect task or of shutdown
quiet == <<_listeners, regs, handles, nAdds, lastExc, status, latest_status,
           round, cmd>>

\* shutdown() has not been called: the Coordinator is in use
InUse == down.pc = "no"

(***************************************************************************)
(* reconnect() is called by the owner of the Coordinator.                   *)
(***************************************************************************)
CallReconnect ==
    /\ ~Busy
    /\ down.pc = "no"
    /\ reconnect("caller")
    /\ UNCHANGED <<quiet, _task, obsTasks, client, _timer_disconnected, down>>
    /\ obsClient' = Consumed(obsTasks')
    /\ UNCHANGED svars

(***************************************************************************)
(* Coordinator._reconnect, up to "await self.client.shutdown()": the close *)
(* of the current client begins.                                            *)
(***************************************************************************)
_reconnect_begin(r) ==
    /\ ~Busy
    /\ recTasks[r].pc = "pending"
    /\ sessions' = [sessions EXCEPT ![client] = "closed"]
    /\ recTasks' = [recTasks EXCEPT ![r].pc = "closing",
                                    ![r].log = Append(@, <<"close", client>>)]
    /\ UNCHANGED <<quiet, _task, obsTasks, client, _reconnect_task,
                   _timer_disconnected, down>>
    /\ obsClient' = Consumed(obsTasks')
    /\ UNCHANGED svars

\* Mutant of _reconnect_closed: the close is not wrapped in
\* contextlib.suppress, its error ends the attempt.
_reconnect_closed_aborts(r, raises) ==
    /\ ~Busy
    /\ recTasks[r].pc = "closing"
    /\ IF raises
         THEN /\ recTasks' = [recTasks EXCEPT ![r].pc = "finished",
                                              ![r].exit = _reconnect_except("Exception"),
                                              ![r].closeRaised = TRUE]
              /\ UNCHANGED sessions
         ELSE /\ sessions' = Append(sessions, "creating")
              /\ recTasks' = [recTasks EXCEPT
                                ![r].pc = "creating",
                                ![r].session = Len(sessions) + 1,
                                ![r].log = Append(@, <<"create", Len(sessions) + 1>>)]
    /\ UNCHANGED <<quiet, _task, obsTasks, client, _reconnect_task,
                   _timer_disconnected, down>>
    /\ obsClient' = Consumed(obsTasks')
    /\ UNCHANGED svars

(***************************************************************************)
(* The awaited close returns or raises (contextlib.suppress(Exception)     *)
(* swallows the error), and _reconnect goes on to                           *)
(* "await CoAPClient.create(self.host)": a new session is being created.   *)
(***************************************************************************)
_reconnect_closed(r, raises) ==
    /\ ~Busy
    /\ recTasks[r].pc = "closing"
    /\ sessions' = Append(sessions, "creating")
    /\ recTasks' = [recTasks EXCEPT
                      ![r].pc = "creating",
                      ![r].closeRaised = raises,
                      ![r].session = Len(sessions) + 1,
                      ![r].log = Append(@, <<"create", Len(sessions) + 1>>)]
    /\ UNCHANGED <<quiet, _task, obsTasks, client, _reconnect_task,
                   _timer_disconnected, down>>
    /\ obsClient' = Consumed(obsTasks')
    /\ UNCHANGED svars

\* Mutant of _reconnect_created: the attempt swallows its cancellation and
\* installs the session all the same.
_reconnect_created_despite_cancel(r) ==
    /\ ~Busy
    /\ recTasks[r].session # NoSession
    /\ sessions[recTasks[r].session] \in {"creating", "discarded"}
    /\ client' = recTasks[r].session
    /\ sessions' = sessions
    /\ _start_observing
    /\ recTasks' = [recTasks EXCEPT
                      ![r].pc = "finished",
                      ![r].exit = "returned",
                      ![r].started = Len(obsTasks) + 1,
                      ![r].log = @ \o << <<"install", recTasks[r].session>>,
                                         <<"observe", recTasks[r].session>> >>]
    /\ UNCHANGED <<quiet, _reconnect_task, _timer_disconnected, down>>
    /\ obsClient' = Consumed(obsTasks')
    /\ UNCHANGED svars

(***************************************************************************)
(* The awaited creation returns the new session: _reconnect installs it as *)
(* self.client, calls _start_observing and returns.                         *)
(***************************************************************************)
_reconnect_created(r) ==
    /\ ~Busy
    /\ recTasks[r].pc = "creating"
    /\ client' = recTasks[r].session
    /\ sessions' = [sessions EXCEPT ![recTasks[r].session] = "open"]
    /\ _start_observing
    /\ recTasks' = [recTasks EXCEPT
                      ![r].pc = "finished",
                      ![r].exit = "returned",
                      ![r].started = Len(obsTasks) + 1,
                      ![r].log = @ \o << <<"install", recTasks[r].session>>,
                                         <<"observe", recTasks[r].session>> >>]
    /\ UNCHANGED <<quiet, _reconnect_task, _timer_disconnected, down>>
    /\ obsClient' = Consumed(obsTasks')
    /\ UNCHANGED svars

\* Mutant of _reconnect_create_failed: the attempt tries the creation again.
_reconnect_create_failed_retries(r) ==
    /\ ~Busy
    /\ recTasks[r].pc = "creating"
    /\ sessions' = Append([sessions EXCEPT ![recTasks[r].session] = "failed"],
                          "creating")
    /\ recTasks' = [recTasks EXCEPT
                      ![r].session = Len(sessions) + 1,
                      ![r].log = Append(@, <<"create", Len(sessions) + 1>>)]
    /\ UNCHANGED <<quiet, _task, obsTasks, client, _reconnect_task,
                   _timer_disconnected, down>>
    /\ obsClient' = Consumed(obsTasks')
    /\ UNCHANGED svars

(***************************************************************************)
(* The awaited creation raises: the bare except logs it and _reconnect     *)
(* returns.                                                                 *)
(***************************************************************************)
_reconnect_create_failed(r) ==
    /\ ~Busy
    /\ recTasks[r].pc = "creating"
    /\ sessions' = [sessions EXCEPT ![recTasks[r].session] = "failed"]
    /\ recTasks' = [recTasks EXCEPT ![r].pc = "finished",
                                    ![r].exit = _reconnect_except("Exception")]
    /\ UNCHANGED <<quiet, _task, obsTasks, client, _reconnect_task,
                   _timer_disconnected, down>>
    /\ obsClient' = Consumed(obsTasks')
    /\ UNCHANGED svars

\* no observation task and no reconnect task is active
Idling ==
    /\ \A t \in DOMAIN obsTasks : obsTasks[t] \notin ActiveStates
    /\ \A r \in DOMAIN recTasks : recTasks[r].pc \notin RecActive

\* Mutant of shutdown: the held reconnect task is not cancelled.
shutdown_keeps_reconnect ==
    /\ ~Busy
    /\ down.pc = "no"
    /\ recTasks' = recTasks
    /\ sessions' = [sessions EXCEPT ![client] = "closed"]
    /\ _timer_disconnected' = TimerCancel
    /\ down' = [pc |-> "closing", idle |-> Idling]
    /\ UNCHANGED <<quiet, _task, obsTasks, client, _reconnect_task>>
    /\ obsClient' = Consumed(obsTasks')
    /\ UNCHANGED svars

(***************************************************************************)
(* Coordinator.shutdown(), up to "await self.client.shutdown()": cancel    *)
(* the held reconnect task, cancel the watchdog, begin the close of the    *)
(* client.  The observation task is not touched.                            *)
(***************************************************************************)
shutdown_begins ==
    /\ ~Busy
    /\ down.pc = "no"
    /\ recTasks' = IF _reconnect_task # NoTask
                     THEN CancelRec(recTasks, _reconnect_task)
                     ELSE recTasks
    /\ sessions' = [(IF _reconnect_task # NoTask
                       THEN Discard(sessions, recTasks, _reconnect_task)
                       ELSE sessions) EXCEPT ![client] = "closed"]
    /\ _timer_disconnected' = TimerCancel
    /\ down' = [pc |-> "closing", idle |-> Idling]
    /\ UNCHANGED <<quiet, _task, obsTasks, client, _reconnect_task>>
    /\ obsClient' = Consumed(obsTasks')

\* shutdown() called on its own: the config entries are left alone
shutdown ==
    /\ shutdown_begins
    /\ UNCHANGED svars

(***************************************************************************)
(* The close awaited by shutdown() returns, or raises: shutdown has no     *)
(* handler, the error reaches its caller.                                   *)
(***************************************************************************)
shutdown_ends(raises) ==
    /\ ~Busy
    /\ down.pc = "closing"
    /\ down' = [down EXCEPT !.pc = IF raises THEN "raised" ELSE "returned"]
    /\ UNCHANGED <<quiet, _task, obsTasks, client, sessions, _reconnect_task,
                   recTasks, _timer_disconnected>>
    /\ obsClient' = Consumed(obsTasks')

\* the close awaited by a shutdown() called on its own
shutdown_closed(raises) ==
    /\ shutdown_ends(raises)
    /\ UNCHANGED svars

(***************************************************************************)
(* The watchdog at work.  The Coordinator hands self.reconnect to the Timer *)
(* as its callback; the Timer awaits it when it expires.                    *)
(***************************************************************************)
\* Mutant of callback: the Timer is given a callback that does nothing.
callback_unwired ==
    UNCHANGED <<recTasks, sessions, _reconnect_task>>

callback == reconnect("timer")

\* Timer.reset() is called on the Coordinator's watchdog: it runs, with the
\* whole timeout ahead
WatchdogArm ==
    /\ ~Busy
    /\ InUse
    /\ _timer_disconnected' = TimerReset
    /\ UNCHANGED <<quiet, _task, obsTasks, client, sessions, _reconnect_task,
                   recTasks, down>>
    /\ obsClient' = Consumed(obsTasks')
    /\ UNCHANGED svars

\* one base interval passes while the watchdog runs
WatchdogTick ==
    /\ ~Busy
    /\ _timer_disconnected.running
    /\ _timer_disconnected.left > 0
    /\ _timer_disconnected' = [_timer_disconnected EXCEPT !.left = @ - 1]
    /\ UNCHANGED <<quiet, _task, obsTasks, client, sessions, _reconnect_task,
                   recTasks, down>>
    /\ obsClient' = Consumed(obsTasks')
    /\ UNCHANGED svars

\* the countdown is through: the Timer invokes its callback and, with
\* auto_restart, starts over
WatchdogExpire ==
    /\ ~Busy
    /\ _timer_disconnected.running
    /\ _timer_disconnected.left = 0
    /\ callback
    /\ _timer_disconnected' = TimerReset
    /\ UNCHANGED <<quiet, _task, obsTasks, client, down>>
    /\ obsClient' = Consumed(obsTasks')
    /\ UNCHANGED svars

(***************************************************************************)
(* async_unload_entry(hass, entry) of __init__.py, for the config entry of *)
(* the Coordinator (entry 0): the platforms are unloaded one after the     *)
(* other, then coordinator.shutdown() is awaited, then the entry's data is *)
(* popped from hass.data.  No step has a handler: an exception of an       *)
(* awaited call leaves async_unload_entry.                                  *)
(***************************************************************************)
PLATFORMS == <<"fan", "binary_sensor", "sensor", "switch", "light", "select", "number">>

NotUnloading == [pc |-> "none", unloaded |-> 0, exc |-> "none"]

\* what a step of async_unload_entry that does not reach the Coordinator
\* leaves alone
coordinator_untouched ==
    /\ UNCHANGED <<quiet, _task, obsTasks, client, sessions, _reconnect_task,
                   recTasks, _timer_disconnected, down>>
    /\ obsClient' = Consumed(obsTasks')

\* the call, up to the await of the unload of the first platform
async_unload_entry ==
    /\ ~Busy
    /\ InUse
    /\ unload.pc = "none"
    /\ 0 \in DOMAIN hass_data
    /\ unload' = [unload EXCEPT !.pc = "platforms"]
    /\ coordinator_untouched
    /\ UNCHANGED <<setup, hass_data, loaded, fan>>

\* Mutant of unload_platform: the Coordinator is shut down as soon as the
\* first platform is unloaded.
unload_platform_then_shutdown(raises) ==
    /\ ~Busy
    /\ unload.pc = "platforms"
    /\ IF raises
         THEN /\ unload' = [unload EXCEPT !.pc = "raised", !.exc = "UnloadError"]
              /\ coordinator_untouched
              /\ UNCHANGED loaded
         ELSE /\ unload' = [unload EXCEPT !.unloaded = @ + 1, !.pc = "shutdown"]
              /\ shutdown_begins
              /\ loaded' = loaded \ {0}
    /\ UNCHANGED <<setup, hass_data, fan>>

\* the awaited async_forward_entry_unload(entry, p) returns or raises; after
\* the last platform the for loop is left, the entry's data is read and
\* coordinator.shutdown() runs up to its await
unload_platform(raises) ==
    /\ ~Busy
    /\ unload.pc = "platforms"
    /\ IF raises
         THEN /\ unload' = [unload EXCEPT !.pc = "raised", !.exc = "UnloadError"]
              /\ coordinator_untouched
              /\ UNCHANGED loaded
         ELSE IF unload.unloaded + 1 < Len(PLATFORMS)
           THEN /\ unload' = [unload EXCEPT !.unloaded = @ + 1]
                /\ coordinator_untouched
                /\ UNCHANGED loaded
           ELSE /\ unload' = [unload EXCEPT !.unloaded = @ + 1, !.pc = "shutdown"]
                /\ shutdown_begins
                /\ loaded' = loaded \ {0}
    /\ UNCHANGED <<setup, hass_data, fan>>

\* the awaited coordinator.shutdown() returns: the entry's data is popped
\* and async_unload_entry returns True; or it raises and the data stays
unload_shutdown_over(raises) ==
    /\ unload.pc = "shutdown"
    /\ shutdown_ends(raises)
    /\ IF raises
         THEN /\ unload' = [unload EXCEPT !.pc = "raised", !.exc = "CloseError"]
              /\ UNCHANGED hass_data
         ELSE /\ unload' = [unload EXCEPT !.pc = "returned"]
              /\ hass_data' = [e \in DOMAIN hass_data \ {0} |-> hass_data[e]]
    /\ UNCHANGED <<setup, loaded, fan>>

(***************************************************************************)
(* async_setup_entry(hass, entry) of __init__.py, for the config entries   *)
(* 1..MaxEntries.  Entry 0 is the entry of the Coordinator above, set up   *)
(* before.  A call is at                                                    *)
(*   none        not called                                                 *)
(*   mac         awaiting async_get_mac_address_from_host                   *)
(*   creating    awaiting asyncio.wait_for(CoAPClient.create(host), 25)     *)
(*   forwarding  awaiting async_forward_entry_setups(entry, PLATFORMS)      *)
(*   returned    it returned True                                           *)
(*   raised      exc left it                                                *)
(***************************************************************************)
Entries == 1..MaxEntries

\* timeout=25 of asyncio.wait_for, in seconds
CREATE_TIMEOUT == 25

NotCalled == [pc |-> "none", waited |-> 0, mac |-> "None", exc |-> "none",
              creations |-> 0, coordinator |-> FALSE]

\* the call begins: it reads the entry's data and awaits the mac address
async_setup_entry(entry) ==
    /\ setup[entry].pc = "none"
    /\ setup' = [setup EXCEPT ![entry].pc = "mac"]
    /\ UNCHANGED <<hass_data, loaded>>

\* the mac address is there (or None): CoAPClient.create(host) is called
\* under asyncio.wait_for and awaited
setup_got_mac(entry, mac) ==
    /\ setup[entry].pc = "mac"
    /\ setup' = [setup EXCEPT ![entry].pc = "creating",
                              ![entry].mac = mac,
                              ![entry].waited = 0,
                              ![entry].creations = @ + 1]
    /\ UNCHANGED <<hass_data, loaded>>

\* a second passes while the creation is awaited
setup_create_waits(entry) ==
    /\ setup[entry].pc = "creating"
    /\ setup[entry].waited < CREATE_TIMEOUT
    /\ setup' = [setup EXCEPT ![entry].waited = @ + 1]
    /\ UNCHANGED <<hass_data, loaded>>

\* the creation returns a client in time: DeviceInformation, the
\* Coordinator and ConfigEntryData are constructed, the entry data is stored
\* in hass.data[DOMAIN] and the forwarding to the platforms is awaited
setup_client_created(entry) ==
    /\ setup[entry].pc = "creating"
    /\ setup[entry].waited < CREATE_TIMEOUT
    /\ setup' = [setup EXCEPT ![entry].pc = "forwarding",
                              ![entry].waited = 0,
                              ![entry].coordinator = TRUE]
    /\ hass_data' = (entry :> [coordinator |-> entry, client |-> entry,
                               mac |-> setup[entry].mac]) @@ hass_data
    /\ UNCHANGED loaded

\* the creation raises in time: no except clause matches, the error leaves
\* async_setup_entry as it is
setup_create_raised(entry) ==
    /\ setup[entry].pc = "creating"
    /\ setup[entry].waited < CREATE_TIMEOUT
    /\ setup' = [setup EXCEPT ![entry].pc = "raised",
                              ![entry].waited = 0,
                              ![entry].exc = "CreateError"]
    /\ UNCHANGED <<hass_data, loaded>>

\* Mutant of setup_create_timed_out: on the timeout the creation is tried
\* again.
setup_create_timed_out_retries(entry) ==
    /\ setup[entry].pc = "creating"
    /\ setup[entry].waited = CREATE_TIMEOUT
    /\ setup' = [setup EXCEPT ![entry].waited = 0,
                              ![entry].creations = @ + 1]
    /\ UNCHANGED <<hass_data, loaded>>

\* the 25 seconds are over: wait_for cancels the creation and raises
\* TimeoutError, the except clause logs a warning and raises
\* ConfigEntryNotReady
setup_create_timed_out(entry) ==
    /\ setup[entry].pc = "creating"
    /\ setup[entry].waited = CREATE_TIMEOUT
    /\ setup' = [setup EXCEPT ![entry].pc = "raised",
                              ![entry].waited = 0,
                              ![entry].exc = "ConfigEntryNotReady"]
    /\ UNCHANGED <<hass_data, loaded>>

\* the awaited forwarding returns (the platforms are set up, the call
\* returns True) or raises (the error leaves the call)
setup_platforms_forwarded(entry, raises) ==
    /\ setup[entry].pc = "forwarding"
    /\ setup' = [setup EXCEPT ![entry].pc = IF raises THEN "raised" ELSE "returned",
                              ![entry].exc = IF raises THEN "ForwardError" ELSE "none"]
    /\ loaded' = IF raises THEN loaded ELSE loaded \cup {entry}
    /\ UNCHANGED hass_data

(***************************************************************************)
(* The tables of the fan classes and PhilipsGenericCoAPFanBase.__init__,   *)
(* which collects them over the method resolution order of the entity's    *)
(* class.  A class is a record: its name, the class attributes its body    *)
(* defines (own: a function from attribute names to tables) and its own    *)
(* method resolution order (mro), as positions in the method resolution    *)
(* order of the entity's class, which lists the most derived class first.  *)
(* Keys and values are the names and values of the PhilipsApi and          *)
(* PresetMode constants.                                                    *)
(***************************************************************************)
\* PhilipsGenericCoAPFanBase.REPLACE_PRESET = None; no class overrides it
REPLACE_PRESET == <<>>

\* PhilipsAC1214
AC1214_PRESET_MODES ==
    << <<"AUTO",     [MODE |-> "P"]>>,
       <<"ALLERGEN", [MODE |-> "A"]>>,
       <<"NIGHT",    [MODE |-> "N"]>>,
       <<"SPEED_1",  [MODE |-> "M", SPEED |-> "1"]>>,
       <<"SPEED_2",  [MODE |-> "M", SPEED |-> "2"]>>,
       <<"SPEED_3",  [MODE |-> "M", SPEED |-> "3"]>>,
       <<"TURBO",    [MODE |-> "M", SPEED |-> "t"]>> >>

AC1214_SPEEDS ==
    << <<"NIGHT",    [MODE |-> "N"]>>,
       <<"SPEED_1",  [MODE |-> "M", SPEED |-> "1"]>>,
       <<"SPEED_2",  [MODE |-> "M", SPEED |-> "2"]>>,
       <<"SPEED_3",  [MODE |-> "M", SPEED |-> "3"]>>,
       <<"TURBO",    [MODE |-> "M", SPEED |-> "t"]>> >>

\* PhilipsAC29xx
AC29xx_PRESET_MODES ==
    << <<"AUTO",   [POWER |-> "1", MODE |-> "AG"]>>,
       <<"SLEEP",  [POWER |-> "1", MODE |-> "S"]>>,
       <<"GENTLE", [POWER |-> "1", MODE |-> "GT"]>>,
       <<"TURBO",  [POWER |-> "1", MODE |-> "T"]>> >>

AC29xx_SPEEDS ==
    << <<"SLEEP",  [POWER |-> "1", MODE |-> "S"]>>,
       <<"GENTLE", [POWER |-> "1", MODE |-> "GT"]>>,
       <<"TURBO",  [POWER |-> "1", MODE |-> "T"]>> >>

\* the model classes: their own tables
ModelClasses ==
    { [AVAILABLE_PRESET_MODES |-> AC1214_PRESET_MODES, AVAILABLE_SPEEDS |-> AC1214_SPEEDS],
      [AVAILABLE_PRESET_MODES |-> AC29xx_PRESET_MODES, AVAILABLE_SPEEDS |-> AC29xx_SPEEDS] }

\* the classes derived from a model class: the members of a family define no
\* table (PhilipsAC2936); a variant of a model redefines a table, changing
\* the pattern of a preset and adding presets of its own
NoAttributes == [a \in {} |-> <<>>]

DerivedClasses ==
    { NoAttributes,
      [AVAILABLE_PRESET_MODES |->
          << <<"TURBO",  [MODE |-> "M"]>>,
             <<"MANUAL", [MODE |-> "M", SPEED |-> "1"]>> >>],
      [AVAILABLE_SPEEDS |->
          << <<"TURBO",  [POWER |-> "1", MODE |-> "T", SPEED |-> "t"]>>,
             <<"SPEED_1", [MODE |-> "M", SPEED |-> "1"]>> >>],
      [AVAILABLE_PRESET_MODES |-> << <<"AUTO", [POWER |-> "1"]>> >>,
       AVAILABLE_SPEEDS |-> << <<"SLEEP", [MODE |-> "N"]>> >>] }

\* PhilipsGenericCoAPFanBase, PhilipsGenericCoAPFan: both define empty tables
EmptyTables == [AVAILABLE_PRESET_MODES |-> <<>>, AVAILABLE_SPEEDS |-> <<>>]

\* The method resolution orders of the entity classes:
\* a model class on PhilipsGenericCoAPFan (PhilipsAC1214),
\* a class derived from a model class (PhilipsAC2936 on PhilipsAC29xx),
\* a model class on PhilipsHumidifierMixin and PhilipsGenericCoAPFan
\* (PhilipsAC2729), whose mixin derives from PhilipsGenericCoAPFanBase alone.
\* PhilipsGenericFan stands for the ancestors that define no table.
Hierarchies ==
    { << [name |-> "Model", own |-> m, mro |-> <<1, 2, 3, 4>>],
         [name |-> "PhilipsGenericCoAPFan", own |-> EmptyTables, mro |-> <<2, 3, 4>>],
         [name |-> "PhilipsGenericCoAPFanBase", own |-> EmptyTables, mro |-> <<3, 4>>],
         [name |-> "PhilipsGenericFan", own |-> NoAttributes, mro |-> <<4>>] >>
      : m \in ModelClasses }
    \cup
    { << [name |-> "Derived", own |-> d, mro |-> <<1, 2, 3, 4, 5>>],
         [name |-> "Model", own |-> m, mro |-> <<2, 3, 4, 5>>],
         [name |-> "PhilipsGenericCoAPFan", own |-> EmptyTables, mro |-> <<3, 4, 5>>],
         [name |-> "PhilipsGenericCoAPFanBase", own |-> EmptyTables, mro |-> <<4, 5>>],
         [name |-> "PhilipsGenericFan", own |-> NoAttributes, mro |-> <<5>>] >>
      : m \in ModelClasses, d \in DerivedClasses }
    \cup
    { << [name |-> "Model", own |-> m, mro |-> <<1, 2, 3, 4, 5>>],
         [name |-> "PhilipsHumidifierMixin", own |-> NoAttributes, mro |-> <<2, 4, 5>>],
         [name |-> "PhilipsGenericCoAPFan", own |-> EmptyTables, mro |-> <<3, 4, 5>>],
         [name |-> "PhilipsGenericCoAPFanBase", own |-> EmptyTables, mro |-> <<4, 5>>],
         [name |-> "PhilipsGenericFan", own |-> NoAttributes, mro |-> <<5>>] >>
      : m \in ModelClasses }

\* getattr(cls, attribute, {}): the attribute of the first class of cls's
\* method resolution order that defines it, {} when none does
getattr(mro, cls, attribute) ==
    LET own_mro == mro[cls].mro
        hits == {i \in 1..Len(own_mro) : attribute \in DOMAIN mro[own_mro[i]].own}
    IN  IF hits = {} THEN <<>>
        ELSE mro[own_mro[CHOOSE i \in hits : \A j \in hits : i <= j]].own[attribute]

\* d[key] = pattern on a dict: a key it has keeps its place
SetItem(table, key, pattern) ==
    IF \E i \in 1..Len(table) : table[i][1] = key
      THEN [i \in 1..Len(table) |->
               IF table[i][1] = key THEN <<key, pattern>> ELSE table[i]]
      ELSE Append(table, <<key, pattern>>)

\* d.update(other)
RECURSIVE DictUpdate(_, _)
DictUpdate(table, other) ==
    IF other = <<>> THEN table
    ELSE DictUpdate(SetItem(table, Head(other)[1], Head(other)[2]), Tail(other))

\* "for cls in reversed(self.__class__.__mro__)", from position cls on
RECURSIVE CollectFrom(_, _, _, _)
CollectFrom(mro, attribute, cls, collected) ==
    IF cls = 0 THEN collected
    ELSE CollectFrom(mro, attribute, cls - 1,
                     DictUpdate(collected, getattr(mro, cls, attribute)))

\* Mutant of _collect_available_preset_modes: the classes are visited from
\* the most derived one to the base.
_collect_available_preset_modes_not_reversed(mro) ==
    LET RECURSIVE Forward(_, _)
        Forward(cls, collected) ==
            IF cls > Len(mro) THEN collected
            ELSE Forward(cls + 1,
                         DictUpdate(collected, getattr(mro, cls, "AVAILABLE_PRESET_MODES")))
    IN  Forward(1, <<>>)

_collect_available_preset_modes(mro) ==
    CollectFrom(mro, "AVAILABLE_PRESET_MODES", Len(mro), <<>>)

_collect_available_speeds(mro) ==
    CollectFrom(mro, "AVAILABLE_SPEEDS", Len(mro), <<>>)

\* the status snapshots of the devices of these models; a snapshot may lack
\* a key
FanSnapshots ==
    { [POWER |-> pw, MODE |-> m, SPEED |-> sp] :
          pw \in {"1", "0"}, m \in {"P", "M", "T"}, sp \in {"1", "t"} }
    \cup { [POWER |-> pw, MODE |-> m] : pw \in {"1", "0"}, m \in {"M", "N"} }
    \cup { [POWER |-> pw] : pw \in {"1", "0"} }

\* "for k, v in status_pattern.items(): ... if status != v: break", with the
\* key replaced when REPLACE_PRESET names it: no break happened
PatternHolds(status_pattern, device_status) ==
    \A key \in DOMAIN status_pattern :
        LET k == IF REPLACE_PRESET # <<>> /\ key = REPLACE_PRESET[1]
                   THEN REPLACE_PRESET[2] ELSE key
        IN  k \in DOMAIN device_status /\ device_status[k] = status_pattern[key]

\* Mutant of PresetFrom: the loop goes on after a match, the last preset
\* that matches is returned.
RECURSIVE PresetFrom_last_match(_, _, _)
PresetFrom_last_match(table, i, device_status) ==
    IF i > Len(table) THEN NoPreset
    ELSE LET later == PresetFrom_last_match(table, i + 1, device_status)
         IN  IF later # NoPreset THEN later
             ELSE IF PatternHolds(table[i][2], device_status) THEN table[i][1]
             ELSE NoPreset

\* "for preset_mode, status_pattern in self._available_preset_modes.items()"
\* from position i on: the first preset whose pattern holds is returned,
\* None when the loop runs out
RECURSIVE PresetFrom(_, _, _)
PresetFrom(table, i, device_status) ==
    IF i > Len(table) THEN NoPreset
    ELSE IF PatternHolds(table[i][2], device_status) THEN table[i][1]
    ELSE PresetFrom(table, i + 1, device_status)

\* the preset_mode property
preset_mode(table, device_status) == PresetFrom(table, 1, device_status)

\* the entity before PhilipsGenericCoAPFanBase.__init__ has run
NewFan(mro, device_status) ==
    [mro |-> mro, constructed |-> FALSE,
     _available_preset_modes |-> <<>>, _preset_modes |-> <<>>,
     _available_speeds |-> <<>>, _speeds |-> <<>>,
     device_status |-> device_status, preset_mode |-> "unread"]

\* PhilipsGenericCoAPFanBase.__init__
FanConstruct ==
    /\ ~fan.constructed
    /\ fan' = [fan EXCEPT
                 !.constructed = TRUE,
                 !._available_preset_modes = _collect_available_preset_modes(fan.mro),
                 !._preset_modes = Keys(_collect_available_preset_modes(fan.mro)),
                 !._available_speeds = _collect_available_speeds(fan.mro),
                 !._speeds = Keys(_collect_available_speeds(fan.mro))]

\* the preset_mode property of the constructed entity is read
FanReadPresetMode ==
    /\ fan.constructed
    /\ fan.preset_mode = "unread"
    /\ fan' = [fan EXCEPT !.preset_mode =
                              preset_mode(fan._available_preset_modes, fan.device_status)]

(***************************************************************************)
(* PhilipsAC1214: the three commands the class overrides.  The entity is   *)
(* the record fan; fan.pc is the await the command is suspended at, and    *)
(* fan.sent is the list of the writes the command handed to the client,    *)
(* each with the MODE the device status had at that moment.                *)
(***************************************************************************)
\* the status snapshots of an AC1214; "B" is a mode no preset has, and a
\* snapshot may lack a key
AC1214Snapshots ==
    { [POWER |-> pw, MODE |-> m, SPEED |-> "1"] :
          pw \in {"1", "0"}, m \in {"P", "A", "M", "B"} }
    \cup { [POWER |-> "1", MODE |-> "N"], [MODE |-> "M", SPEED |-> "0"] }

\* the arguments of the commands
AC1214PresetArgs == {"AUTO", "ALLERGEN", "SPEED_1", "UNKNOWN"}
AC1214Percentages == {0, 20, 40}

\* PhilipsApi.POWER_MAP[SWITCH_ON], the value the power-on write sends; the
\* map is a constant of the integration, the value is kept as a token
POWER_MAP_SWITCH_ON == "POWER_MAP[SWITCH_ON]"

\* PhilipsGenericCoAPFanBase.STATE_POWER_ON and STATE_POWER_OFF, which the
\* AC1214 does not override
BASE_STATE_POWER_ON == "1"
BASE_STATE_POWER_OFF == "0"

\* is_on: the power key of the status has the power-on value
is_on(device_status) ==
    /\ "POWER" \in DOMAIN device_status
    /\ device_status["POWER"] = BASE_STATE_POWER_ON

\* status_pattern.get(PhilipsApi.MODE)
ModeOf(pattern) == IF "MODE" \in DOMAIN pattern THEN pattern["MODE"] ELSE "None"

\* a write handed to the client while the status is device_status
Sent(f, data) ==
    Append(f.sent, [data |-> data, mode |-> ModeOf(f.device_status)])

\* the entity with no command running
AC1214Entity(device_status) ==
    [device_status |-> device_status, pc |-> "idle",
     request |-> "None", fn |-> "None",
     percentage |-> NoPercentage, preset_mode |-> NoPreset,
     status_pattern |-> <<>>, was_on |-> TRUE, sent |-> <<>>, exc |-> "None"]

\* "await self.coordinator.client.set_control_value(PhilipsApi.POWER, ...)"
\* and the sleep after it, in the function fn
AC1214_power_on(f, fn) ==
    [f EXCEPT !.fn = fn, !.pc = "power",
              !.sent = Sent(f, [POWER |-> POWER_MAP_SWITCH_ON])]

\* async_set_a: the ALLERGEN pattern is written, then the sleep
async_set_a(f, status_pattern) ==
    [f EXCEPT !.pc = "set_a", !.status_pattern = status_pattern,
              !.sent = Sent(f, Get(AC1214_PRESET_MODES, "ALLERGEN"))]

\* "await self.coordinator.client.set_control_values(data=status_pattern)"
AC1214_set_control_values(f, status_pattern) ==
    [f EXCEPT !.pc = "pattern", !.status_pattern = status_pattern,
              !.sent = Sent(f, status_pattern)]

\* Mutant of AC1214_set_mode: the pattern is written at once, whatever the
\* current mode.
AC1214_set_mode_at_once(f, status_pattern) ==
    IF status_pattern = <<>> THEN [f EXCEPT !.pc = "done"]
    ELSE AC1214_set_control_values(f, status_pattern)

\* the end of async_set_preset_mode and of async_set_percentage: with a
\* pattern whose MODE is not "A", current_pattern.get raises when no preset
\* holds of the status, and async_set_a runs first when the current MODE is
\* not "M"; then the pattern is written
AC1214_set_mode(f, status_pattern) ==
    LET current_pattern ==
            Get(AC1214_PRESET_MODES,
                preset_mode(AC1214_PRESET_MODES, f.device_status))
    IN  IF status_pattern = <<>> THEN [f EXCEPT !.pc = "done"]
        ELSE IF ModeOf(status_pattern) = "A"
               THEN AC1214_set_control_values(f, status_pattern)
        ELSE IF current_pattern = <<>>
               THEN [f EXCEPT !.pc = "raised", !.exc = "AttributeError"]
        ELSE IF ModeOf(current_pattern) # "M"
               THEN async_set_a(f, status_pattern)
        ELSE AC1214_set_control_values(f, status_pattern)

\* async_set_preset_mode after "if not self.is_on"
AC1214_preset_mode_powered(f) ==
    IF f.preset_mode # NoPreset
      THEN AC1214_set_mode(f, Get(AC1214_PRESET_MODES, f.preset_mode))
      ELSE [f EXCEPT !.pc = "done"]

\* async_set_percentage after "if not self.is_on": 0 goes to the generic
\* async_turn_off, another percentage to the pattern of its speed
AC1214_percentage_powered(f) ==
    IF f.percentage = 0
      THEN [f EXCEPT !.pc = "turn_off",
                     !.sent = Sent(f, [POWER |-> BASE_STATE_POWER_OFF])]
      ELSE AC1214_set_mode(f,
               Get(AC1214_SPEEDS,
                   percentage_to_ordered_list_item(Keys(AC1214_SPEEDS),
                                                   f.percentage)))

\* PhilipsAC1214.async_set_preset_mode up to its first await
AC1214_async_set_preset_mode(f) ==
    IF ~is_on(f.device_status)
      THEN AC1214_power_on(f, "async_set_preset_mode")
      ELSE AC1214_preset_mode_powered([f EXCEPT !.fn = "async_set_preset_mode"])

\* PhilipsAC1214.async_set_percentage up to its first await
AC1214_async_set_percentage(f) ==
    IF ~is_on(f.device_status)
      THEN AC1214_power_on(f, "async_set_percentage")
      ELSE AC1214_percentage_powered([f EXCEPT !.fn = "async_set_percentage"])

\* async_turn_on after "if not self.is_on": the preset mode first, then a
\* non-zero percentage, else nothing more
AC1214_turn_on_powered(f) ==
    IF f.preset_mode # NoPreset THEN AC1214_async_set_preset_mode(f)
    ELSE IF f.percentage # NoPercentage /\ f.percentage # 0
           THEN AC1214_async_set_percentage(f)
    ELSE [f EXCEPT !.pc = "done"]

\* PhilipsAC1214.async_turn_on up to its first await
AC1214_async_turn_on(f) ==
    IF ~is_on(f.device_status)
      THEN AC1214_power_on(f, "async_turn_on")
      ELSE AC1214_turn_on_powered([f EXCEPT !.fn = "async_turn_on"])

\* a command is called on the idle entity
AC1214Called(request, percentage, preset) ==
    [AC1214Entity(fan.device_status) EXCEPT
        !.request = request, !.percentage = percentage, !.preset_mode = preset,
        !.was_on = is_on(fan.device_status)]

AC1214TurnOn ==
    /\ fan.pc = "idle"
    /\ \E percentage \in AC1214Percentages \cup {NoPercentage},
          preset \in AC1214PresetArgs \cup {NoPreset} :
          fan' = AC1214_async_turn_on(AC1214Called("async_turn_on", percentage, preset))

AC1214SetPresetMode ==
    /\ fan.pc = "idle"
    /\ \E preset \in AC1214PresetArgs :
          fan' = AC1214_async_set_preset_mode(
                     AC1214Called("async_set_preset_mode", NoPercentage, preset))

AC1214SetPercentage ==
    /\ fan.pc = "idle"
    /\ \E percentage \in AC1214Percentages :
          fan' = AC1214_async_set_percentage(
                     AC1214Called("async_set_percentage", percentage, NoPreset))

\* the awaited write, and the sleep after it, are over: the command goes on
\* to its next await or to its end
AC1214Resume ==
    /\ fan.pc \in {"power", "set_a", "pattern", "turn_off"}
    /\ fan' =
         IF fan.pc = "power"
           THEN IF fan.fn = "async_turn_on" THEN AC1214_turn_on_powered(fan)
                ELSE IF fan.fn = "async_set_preset_mode"
                       THEN AC1214_preset_mode_powered(fan)
                ELSE AC1214_percentage_powered(fan)
         ELSE IF fan.pc = "set_a"
           THEN AC1214_set_control_values(fan, fan.status_pattern)
         ELSE IF fan.pc = "turn_off"
           THEN [fan EXCEPT !.pc = "done",
                            !.device_status =
                                Update(@, [POWER |-> BASE_STATE_POWER_OFF])]
         ELSE [fan EXCEPT !.pc = "done"]

\* the awaited write raises: the command ends with the exception
AC1214WriteRaises ==
    /\ fan.pc \in {"power", "set_a", "pattern", "turn_off"}
    /\ fan' = [fan EXCEPT !.pc = "raised", !.exc = "WriteError"]

\* the Coordinator receives a snapshot of the device
AC1214Push ==
    \E snapshot \in AC1214Snapshots :
        /\ snapshot # fan.device_status
        /\ fan' = [fan EXCEPT !.device_status = snapshot]

\* the command is over, the entity is idle again
AC1214Over ==
    /\ fan.pc \in {"done", "raised"}
    /\ fan' = AC1214Entity(fan.device_status)

\* the fan entity of the Coordinator's own model (PhilipsCX5120) is the one
\* of the write commands above; the entity of another model is not looked at
NoFan == NewFan(<<>>, <<>>)

\* the Coordinator and the config entries after async_setup_entry
CoordinatorInit ==
    /\ cmd = Idle
    /\ status \in DeviceSnapshots
    /\ latest_status = status
    /\ round = NoRound
    /\ _listeners = <<>>
    /\ regs = <<>>
    /\ handles = {}
    /\ nAdds = 0
    /\ _task = NoTask
    /\ obsTasks = <<>>
    /\ lastExc = "none"
    /\ client = 1
    /\ sessions = <<"open">>
    /\ obsClient = <<>>
    /\ _reconnect_task = NoTask
    /\ recTasks = <<>>
    /\ _timer_disconnected = TimerStopped
    /\ down = [pc |-> "no", idle |-> FALSE]
    /\ setup = [e \in Entries |-> NotCalled]
    /\ hass_data = (0 :> [coordinator |-> 0, client |-> 0, mac |-> "None"])
    /\ loaded = {0}
    /\ unload = NotUnloading

Init ==
    /\ CoordinatorInit
    /\ fan = NoFan

AddListener == \E c \in Callbacks : async_add_listener(c)
RemoveListener == \E c \in Callbacks : async_remove_listener(c)
Unsubscribe == \E h \in handles : remove_listener(h)
Begin == \E t \in DOMAIN obsTasks : ObserveBegin(t)
Item == \E t \in DOMAIN obsTasks, s \in DeviceSnapshots : ObserveItem(t, s)
Invoke == \E raises \in BOOLEAN : InvokeListener(raises)
End == \E t \in DOMAIN obsTasks : ObserveEnd(t)
TurnOn == \E pct \in Percentages \cup {NoPercentage}, p \in PresetArgs \cup {NoPreset} :
              Call(async_turn_on(pct, p))
TurnOff == Call(async_turn_off)
SetPresetMode == \E p \in PresetArgs : Call(async_set_preset_mode(p))
SetPercentage == \E pct \in Percentages : Call(async_set_percentage(pct))
Oscillate == \E oscillating \in BOOLEAN : Call(async_oscillate(oscillating))
WriteOk == \E raises \in BOOLEAN : WriteSucceeds(raises)

Next ==
    \/ AddListener
    \/ RemoveListener
    \/ Unsubscribe
    \/ Begin
    \/ Item
    \/ Invoke
    \/ RoundOver
    \/ End
    \/ TurnOn
    \/ TurnOff
    \/ SetPresetMode
    \/ SetPercentage
    \/ Oscillate
    \/ WriteOk
    \/ WriteFails
    \/ CommandOver

Spec == Init /\ [][Next]_vars

(***************************************************************************)
(* The life cycle of one Coordinator: listeners come and go, the device    *)
(* pushes snapshots, its stream ends, reconnect() and shutdown() are        *)
(* called.  After shutdown() the Coordinator is not used any more; the     *)
(* tasks it left behind go on.  No write command is in flight.              *)
(***************************************************************************)
RecBegin == \E r \in DOMAIN recTasks : _reconnect_begin(r)
RecClosed == \E r \in DOMAIN recTasks, raises \in BOOLEAN : _reconnect_closed(r, raises)
RecCreated == \E r \in DOMAIN recTasks : _reconnect_created(r)
RecCreateFailed == \E r \in DOMAIN recTasks : _reconnect_create_failed(r)
ShutdownClosed == \E raises \in BOOLEAN : shutdown_closed(raises)

\* the listeners of the life cycle: up to MaxListeners registrations of the
\* fan entity's callback, each removed while it is registered
Subscribe == InUse /\ nAdds < MaxListeners /\ async_add_listener(FanCb)
Leave == InUse /\ FanCb \in Range(_listeners) /\ async_remove_listener(FanCb)
\* the device pushes one and the same snapshot
Push == \E t \in DOMAIN obsTasks :
            ObserveItem(t, CHOOSE s \in DeviceSnapshots : s.NEW2_POWER = 1)

LifecycleNext ==
    \/ Subscribe
    \/ Leave
    \/ Begin
    \/ Push
    \/ Invoke
    \/ RoundOver
    \/ End
    \/ CallReconnect
    \/ RecBegin
    \/ RecClosed
    \/ RecCreated
    \/ RecCreateFailed
    \/ shutdown
    \/ ShutdownClosed

Lifecycle == Init /\ [][LifecycleNext]_vars

(***************************************************************************)
(* The life cycle with the scheduling of the event loop: a task that can   *)
(* take a step takes it, an awaited close or creation completes.  What the *)
(* owner and the device do (add, remove, reconnect(), shutdown(), push,    *)
(* stream end) is left open.                                                *)
(***************************************************************************)
LoopSteps ==
    \/ Begin
    \/ Invoke
    \/ RoundOver
    \/ RecBegin
    \/ RecClosed
    \/ RecCreated
    \/ RecCreateFailed
    \/ ShutdownClosed

FairLifecycle == Lifecycle /\ WF_vars(LoopSteps)

(***************************************************************************)
(* The Coordinator with its watchdog armed from outside: nothing in the    *)
(* Coordinator starts the Timer (autostart=False, no reset() call), so     *)
(* arming it is an input here.                                              *)
(***************************************************************************)
Deliver == InvokeListener(FALSE)

WatchdogNext ==
    \/ Subscribe
    \/ Begin
    \/ Push
    \/ Deliver
    \/ RoundOver
    \/ WatchdogArm
    \/ WatchdogTick
    \/ WatchdogExpire
    \/ RecBegin
    \/ RecClosed
    \/ RecCreated
    \/ RecCreateFailed
    \/ shutdown
    \/ ShutdownClosed

Watchdog == Init /\ [][WatchdogNext]_vars

(***************************************************************************)
(* Stream items, write commands and reconnects interleaved: listeners are  *)
(* added, the device pushes snapshots, the fan entity is turned off and    *)
(* its write succeeds or fails, reconnect() is called and its attempts     *)
(* run.                                                                     *)
(***************************************************************************)
RoundsNext ==
    \/ Subscribe
    \/ Begin
    \/ Item
    \/ Deliver
    \/ RoundOver
    \/ TurnOff
    \/ WriteOk
    \/ WriteFails
    \/ CommandOver
    \/ CallReconnect
    \/ RecBegin
    \/ RecClosed
    \/ RecCreated
    \/ RecCreateFailed

Rounds == Init /\ [][RoundsNext]_vars

(***************************************************************************)
(* The unload of the Coordinator's config entry while the Coordinator is   *)
(* at work: the entities register and remove their listeners, the device   *)
(* pushes snapshots, reconnect() is called and its attempts run;           *)
(* shutdown() is called by async_unload_entry only.                        *)
(***************************************************************************)
UnloadNext ==
    \/ Subscribe
    \/ Leave
    \/ Begin
    \/ Push
    \/ Deliver
    \/ RoundOver
    \/ CallReconnect
    \/ RecBegin
    \/ RecClosed
    \/ RecCreated
    \/ RecCreateFailed
    \/ async_unload_entry
    \/ \E raises \in BOOLEAN : unload_platform(raises)
    \/ \E raises \in BOOLEAN : unload_shutdown_over(raises)

Unload == Init /\ [][UnloadNext]_vars

(***************************************************************************)
(* Fan-out rounds with callbacks that change the registry while they run:  *)
(* listeners are added, the device pushes snapshots, and a callback of a   *)
(* round may remove a listener or add one.                                 *)
(***************************************************************************)
ReentrantNext ==
    \/ AddListener
    \/ Begin
    \/ Push
    \/ Deliver
    \/ \E c \in Callbacks : InvokeListener_removes(c)
    \/ \E c \in Callbacks : InvokeListener_adds(c)
    \/ RoundOver

Reentrant == Init /\ [][ReentrantNext]_vars

(***************************************************************************)
(* The write commands of the fan entity, with every kind of argument,      *)
(* while the device pushes snapshots: the entity has registered its        *)
(* callback, Home Assistant calls its commands one at a time.               *)
(***************************************************************************)
\* the percentages Home Assistant passes: 0 and the steps up to 100
CommandPercentages == {0, 1, 50, 51, 100}

CommandsNext ==
    \/ Subscribe
    \/ Begin
    \/ Item
    \/ Deliver
    \/ RoundOver
    \/ \E pct \in CommandPercentages \cup {NoPercentage},
          p \in PresetArgs \cup {NoPreset} : Call(async_turn_on(pct, p))
    \/ TurnOff
    \/ SetPresetMode
    \/ \E pct \in CommandPercentages : Call(async_set_percentage(pct))
    \/ WriteOk
    \/ WriteFails
    \/ CommandOver

Commands == Init /\ [][CommandsNext]_vars

(***************************************************************************)
(* The setup of the config entries 1..MaxEntries: Home Assistant calls     *)
(* async_setup_entry once for each, the calls interleave at their awaits.  *)
(* The Coordinator of entry 0 is left alone.                                *)
(***************************************************************************)
cvars0 == <<_listeners, regs, handles, nAdds, _task, obsTasks, lastExc,
            status, latest_status, round, cmd,
            client, sessions, obsClient, _reconnect_task, recTasks,
            _timer_disconnected, down>>

SetupCall == \E e \in Entries : async_setup_entry(e) /\ UNCHANGED <<cvars0, fan, unload>>
SetupGotMac == \E e \in Entries, mac \in {"None", "mac"} :
                   setup_got_mac(e, mac) /\ UNCHANGED <<cvars0, fan, unload>>
SetupCreateWaits == \E e \in Entries : setup_create_waits(e) /\ UNCHANGED <<cvars0, fan, unload>>
SetupClientCreated == \E e \in Entries : setup_client_created(e) /\ UNCHANGED <<cvars0, fan, unload>>
SetupCreateRaised == \E e \in Entries : setup_create_raised(e) /\ UNCHANGED <<cvars0, fan, unload>>
SetupCreateTimedOut == \E e \in Entries : setup_create_timed_out(e) /\ UNCHANGED <<cvars0, fan, unload>>
SetupPlatformsForwarded == \E e \in Entries, raises \in BOOLEAN :
                               setup_platforms_forwarded(e, raises) /\ UNCHANGED <<cvars0, fan, unload>>

SetupNext ==
    \/ SetupCall
    \/ SetupGotMac
    \/ SetupCreateWaits
    \/ SetupClientCreated
    \/ SetupCreateRaised
    \/ SetupCreateTimedOut
    \/ SetupPlatformsForwarded

Setup == Init /\ [][SetupNext]_vars

(***************************************************************************)
(* A fan entity of a model class is constructed on a device status, and    *)
(* its preset_mode property is read.                                        *)
(***************************************************************************)
TablesInit ==
    /\ CoordinatorInit
    /\ fan \in {NewFan(mro, device_status) :
                    mro \in Hierarchies, device_status \in FanSnapshots}

TablesNext ==
    \/ FanConstruct /\ UNCHANGED <<cvars0, setup, hass_data, loaded, unload>>
    \/ FanReadPresetMode /\ UNCHANGED <<cvars0, setup, hass_data, loaded, unload>>

Tables == TablesInit /\ [][TablesNext]_vars

(***************************************************************************)
(* The commands of a PhilipsAC1214 entity while the device pushes          *)
(* snapshots.                                                              *)
(***************************************************************************)
AC1214Init ==
    /\ CoordinatorInit
    /\ fan \in {AC1214Entity(device_status) : device_status \in AC1214Snapshots}

AC1214Next ==
    \/ AC1214TurnOn /\ UNCHANGED <<cvars0, setup, hass_data, loaded, unload>>
    \/ AC1214SetPresetMode /\ UNCHANGED <<cvars0, setup, hass_data, loaded, unload>>
    \/ AC1214SetPercentage /\ UNCHANGED <<cvars0, setup, hass_data, loaded, unload>>
    \/ AC1214Resume /\ UNCHANGED <<cvars0, setup, hass_data, loaded, unload>>
    \/ AC1214WriteRaises /\ UNCHANGED <<cvars0, setup, hass_data, loaded, unload>>
    \/ AC1214Push /\ UNCHANGED <<cvars0, setup, hass_data, loaded, unload>>
    \/ AC1214Over /\ UNCHANGED <<cvars0, setup, hass_data, loaded, unload>>

AC1214 == AC1214Init /\ [][AC1214Next]_vars

(***************************************************************************)
(* The claims.                                                             *)
(***************************************************************************)
\* the observation loop is active: the Coordinator holds a task that has
\* neither finished nor been cancelled
TaskActive == _task # NoTask /\ obsTasks[_task] \in ActiveStates

ListenerCall == AddListener \/ RemoveListener \/ Unsubscribe

\* s is t without the element at position i
IsWithout(s, t, i) ==
    /\ Len(s) = Len(t) - 1
    /\ \A j \in 1..Len(s) : s[j] = IF j < i THEN t[j] ELSE t[j + 1]

\* C1: after each add-listener / remove-listener call the observation loop
\* is active if and only if the listener registry is non-empty.
C1_LoopActiveIffListeners ==
    [][ListenerCall => (TaskActive' <=> _listeners' # <<>>)]_vars

\* C2: async_add_listener on an empty registry has created and holds a new
\* observation task when it returns; on a non-empty registry it creates no
\* task and leaves the held task and every task as they are.
C2_AddStartsLoopOnlyWhenFirst ==
    [][\A c \in Callbacks :
          async_add_listener(c) =>
              IF _listeners = <<>>
                THEN /\ Len(obsTasks') = Len(obsTasks) + 1
                     /\ _task' = Len(obsTasks')
                     /\ obsTasks'[_task'] = "pending"
                     /\ TaskActive'
                ELSE /\ _task' = _task
                     /\ obsTasks' = obsTasks]_vars

\* C2 witness: two listeners were added; the first call started task 1, the
\* second started nothing.
C2_Witness ==
    /\ nAdds = 2
    /\ Len(_listeners) = 2
    /\ obsTasks = <<"pending">>
    /\ _task = 1

\* C3: when removing a listener leaves the registry empty, the held task is
\* cancelled, no observation task is active and the Coordinator holds none;
\* when other listeners remain, the held task and every task are untouched.
C3_RemoveLastCancelsLoop ==
    [][\A c \in Callbacks :
          (c \in Range(_listeners) /\ async_remove_listener(c)) =>
              IF _listeners' = <<>>
                THEN /\ _task' = NoTask
                     /\ _task # NoTask => obsTasks'[_task] \notin ActiveStates
                     /\ \A t \in DOMAIN obsTasks' : obsTasks'[t] \notin ActiveStates
                ELSE /\ _task' = _task
                     /\ obsTasks' = obsTasks]_vars

\* C3 witness: of two listeners one was removed, which left the loop alone,
\* then the other, which cancelled it.
C3_Witness ==
    /\ nAdds = 2
    /\ _listeners = <<>>
    /\ obsTasks = <<"cancelled">>
    /\ _task = NoTask

\* C4: removing a callback that is not in the registry (already removed, or
\* never added) does not raise and leaves registry and observation task
\* unchanged.
C4_RemoveAbsentIsNoOp ==
    [][\A c \in Callbacks :
          (c \notin Range(_listeners) /\ async_remove_listener(c)) =>
              /\ lastExc' = "none"
              /\ _listeners' = _listeners
              /\ _task' = _task
              /\ obsTasks' = obsTasks]_vars

\* C5 as claimed: invoking an unsubscribe handle whose registration is still
\* in the registry removes the element of that registration, and the others
\* stay in order.
C5_HandleRemovesItsRegistration ==
    [][\A h \in handles :
          (h.reg \in Range(regs) /\ remove_listener(h)) =>
              IsWithout(_listeners', _listeners, IndexOf(regs, h.reg))]_vars

\* C5 as amended: invoking an unsubscribe handle whose callback is in the
\* registry removes the earliest registration of that callback, and the
\* others stay in order; it is the handle's own registration when that one
\* is the earliest of its callback.
C5_HandleRemovesFirstOfCallback ==
    [][\A h \in handles :
          (h.cb \in Range(_listeners) /\ remove_listener(h)) =>
              \E i \in 1..Len(_listeners) :
                  /\ _listeners[i] = h.cb
                  /\ \A j \in 1..(i - 1) : _listeners[j] # h.cb
                  /\ IsWithout(_listeners', _listeners, i)
                  /\ IsWithout(regs', regs, i)
                  /\ regs[i] = h.reg => h.reg \notin Range(regs')]_vars

\* C5 witness: fan, sensor, fan were registered and a handle of fan was
\* invoked: the first registration is gone, the other two remain.
C5_Witness ==
    /\ nAdds = 3
    /\ _listeners = <<"sensor", FanCb>>
    /\ regs = <<2, 3>>
\* the for loop of a fan-out round is through: it reached the end of the
\* list, or a callback raised
RoundEnds == round.open /\ (round.exc \/ round.i > Len(_listeners))

\* C6: for each snapshot received, the status is replaced first and then
\* every registered listener is invoked exactly once, in registration
\* order, each reading the new snapshot.
C6_RoundInvokesEveryListenerOnce ==
    RoundEnds =>
        /\ status = round.snap
        /\ [j \in 1..Len(round.calls) |-> round.calls[j].reg] = round.regs0
        /\ \A j \in 1..Len(round.calls) : round.calls[j].read = round.snap

\* C7: when a listener raises during a round, the remaining listeners of
\* the round are still invoked and the observation task goes on observing.
C7_ListenerFaultIsIsolated ==
    [][(round.exc /\ RoundOver) =>
          /\ Len(round.calls) = Len(round.regs0)
          /\ obsTasks'[round.task] = "observing"]_vars

\* C8: after a write command whose device write succeeded has returned, the
\* status holds the written value for every written key.
C8_StatusHoldsWrittenValues ==
    (cmd.pc = "returned" /\ cmd.result = "ok") =>
        \A k \in DOMAIN cmd.data : k \in DOMAIN status /\ status[k] = cmd.data[k]

\* C9: when a successful write command returns, every listener registered
\* when it began has been invoked exactly once since it began.
C9_EveryListenerNotifiedOnce ==
    (cmd.pc = "returned" /\ cmd.result = "ok") =>
        \A c \in cmd.listeners0 : cmd.seen[c] = 1

\* C10 as claimed: when the device write of a command fails, the error
\* reaches the caller, the status is what it was when the command began and
\* the command has notified no listener.
C10_FailedWriteLeavesStatusAsBefore ==
    cmd.result = "failed" =>
        /\ cmd.pc = "raised"
        /\ status = cmd.status0
        /\ cmd.own = 0

\* C10 as amended: when the device write of a command fails, the error
\* reaches the caller, the command has not changed the status (it is what
\* it was when the command began, or the last snapshot the device pushed
\* since) and the command has notified no listener.
C10_FailedWriteDoesNotMutateStatus ==
    cmd.result = "failed" =>
        /\ cmd.pc = "raised"
        /\ status = cmd.base
        /\ cmd.own = 0

\* C10 witness: the write of a command that stores a pattern failed.
C10_Witness ==
    /\ cmd.result = "failed"
    /\ cmd.pc = "raised"
    /\ cmd.store # <<>>
    /\ status # Update(status, cmd.store)

\* the command in flight wrote a multi-key pattern with set_control_values
MultiKeyPatch == cmd.pc # "idle" /\ Cardinality(DOMAIN cmd.data) > 1

\* C11: a multi-key patch written with set_control_values and read back from
\* the status reflects every key of the patch; when the write failed, the
\* status is what it was before the call.
C11_PatchRoundTrip ==
    MultiKeyPatch =>
        /\ (cmd.pc = "returned" /\ cmd.result = "ok") =>
               \A k \in DOMAIN cmd.data :
                   k \in DOMAIN status /\ status[k] = cmd.data[k]
        /\ cmd.result = "failed" => status = cmd.status0

(***************************************************************************)
(* The claims on reconnect, the watchdog and shutdown.                      *)
(***************************************************************************)
ActiveObs == {t \in DOMAIN obsTasks : obsTasks[t] \in ActiveStates}
ActiveRec == {r \in DOMAIN recTasks : recTasks[r].pc \in RecActive}

\* C12: in every reachable state at most one observation task and at most
\* one reconnect task are active (created, and neither cancelled nor over).
C12_AtMostOneTaskOfEachKind ==
    /\ Cardinality(ActiveObs) <= 1
    /\ Cardinality(ActiveRec) <= 1

\* C12 witness: a second reconnect task and a second observation task are
\* active, their predecessors are cancelled.
C12_Witness ==
    /\ Len(recTasks) = 2
    /\ recTasks[1].pc = "cancelled"
    /\ recTasks[2].pc \in RecActive
    /\ Len(obsTasks) = 2
    /\ obsTasks[1] = "cancelled"
    /\ obsTasks[2] \in ActiveStates

\* C13: reconnect() called while an earlier attempt is in flight cancels
\* that attempt, which takes no further step and starts nothing; when the
\* later attempt has created its session, exactly one observation loop is
\* active; never do two observation tasks consume a stream at once.
C13_ReconnectSupersedes ==
    [][/\ \A r \in DOMAIN recTasks :
             (CallReconnect /\ _reconnect_task = r /\ recTasks[r].pc \in RecActive) =>
                 /\ recTasks'[r].pc = "cancelled"
                 /\ _reconnect_task' # r
       /\ \A r \in DOMAIN recTasks :
             recTasks[r].pc = "cancelled" =>
                 /\ recTasks'[r] = recTasks[r]
                 /\ recTasks[r].started = NoTask
                 /\ client' # recTasks[r].session
       /\ \A r \in DOMAIN recTasks :
             _reconnect_created(r) => Cardinality(ActiveObs') = 1
       /\ Cardinality({t \in DOMAIN obsTasks' : obsTasks'[t] = "observing"}) <= 1]_vars

\* C13 witness: the first attempt was cancelled while creating its session,
\* the second has run to completion and its observation loop is active.
C13_Witness ==
    /\ Len(recTasks) = 2
    /\ recTasks[1].pc = "cancelled"
    /\ recTasks[1].session # NoSession
    /\ recTasks[2].pc = "finished"
    /\ recTasks[2].started # NoTask
    /\ _task = recTasks[2].started
    /\ obsTasks[_task] = "observing"

\* the steps an attempt that created session s after closing session c has
\* taken when it is through
FullLog(c, s) == << <<"close", c>>, <<"create", s>>, <<"install", s>>, <<"observe", s>> >>

IsPrefix(a, b) == Len(a) <= Len(b) /\ \A i \in 1..Len(a) : a[i] = b[i]

\* C14: a reconnect attempt closes the existing client (an error of the
\* close does not stop it), then creates a new session, installs it as the
\* client and restarts the observation loop, which consumes the new
\* session; no step before the creation succeeded starts an observation.
C14_ReconnectStepsInOrder ==
    [][/\ \A r \in DOMAIN recTasks' :
             /\ \E c \in DOMAIN sessions', n \in DOMAIN sessions' \cup {NoSession} :
                    IsPrefix(recTasks'[r].log, FullLog(c, n))
             /\ recTasks'[r].started # NoTask <=> Len(recTasks'[r].log) = 4
       /\ \A r \in DOMAIN recTasks :
             _reconnect_closed(r, TRUE) => recTasks'[r].pc = "creating"
       /\ \A r \in DOMAIN recTasks :
             _reconnect_created(r) =>
                 /\ sessions[client] = "closed"
                 /\ client' = recTasks[r].session
                 /\ client' # client
                 /\ sessions'[client'] = "open"
                 /\ _task' = recTasks'[r].started
                 /\ obsTasks'[_task'] = "pending"
       /\ \A r \in DOMAIN recTasks :
             (_reconnect_begin(r) \/ _reconnect_closed(r, TRUE) \/ _reconnect_closed(r, FALSE)
                 \/ _reconnect_create_failed(r)) =>
                 /\ obsTasks' = obsTasks
                 /\ _task' = _task
                 /\ client' = client
       /\ \A t \in DOMAIN obsTasks, r \in DOMAIN recTasks :
             (ObserveBegin(t) /\ recTasks[r].started = t) =>
                 obsClient'[t] = recTasks[r].session]_vars

\* C14 witness: an attempt whose close raised has installed its session and
\* the observation task it started consumes that session.
C14_Witness ==
    \E r \in DOMAIN recTasks :
        /\ recTasks[r].closeRaised
        /\ recTasks[r].log = FullLog(1, 2)
        /\ client = 2
        /\ recTasks[r].started \in DOMAIN obsClient
        /\ obsClient[recTasks[r].started] = 2

\* the Coordinator has an observation loop that can deliver snapshots: a
\* held task that is neither over nor cancelled, on a session that was not
\* shut down
LoopLive ==
    /\ TaskActive
    /\ sessions[IF _task \in DOMAIN obsClient THEN obsClient[_task] ELSE client] = "open"

\* the held reconnect attempt is over without having installed a session
Unrecovered ==
    /\ _reconnect_task # NoTask
    /\ recTasks[_reconnect_task].pc \in {"cancelled", "finished"}
    /\ recTasks[_reconnect_task].started = NoTask

C16_DiscardedSessionNeverInstalled ==
    \A s \in DOMAIN sessions :
        sessions[s] = "discarded" =>
            /\ client # s
            /\ \A t \in DOMAIN obsClient : obsClient[t] # s

\* C16 witness: an attempt was cancelled by shutdown() while it created its
\* session, another one by a superseding reconnect().
C16_Witness ==
    /\ Len(recTasks) = 2
    /\ recTasks[1].session # NoSession
    /\ sessions[recTasks[1].session] = "discarded"
    /\ recTasks[2].session # NoSession
    /\ sessions[recTasks[2].session] = "discarded"
    /\ down.pc # "no"

\* C17: every time the observation loop receives a snapshot, the watchdog
\* timer is reset: it runs with the whole timeout ahead.
C17_SnapshotResetsWatchdog ==
    [][(\E t \in DOMAIN obsTasks, s \in DeviceSnapshots : ObserveItem(t, s)) =>
          _timer_disconnected' = TimerReset]_vars

\* the reconnect tasks the watchdog has created
ByTimer(tasks) == {r \in DOMAIN tasks : tasks[r].by = "timer"}

StreamLost ==
    /\ _listeners # <<>>
    /\ _task # NoTask
    /\ obsTasks[_task] = "finished"
    /\ ~round.open

\* a reconnect attempt is creating a new client session
Creating == \E r \in DOMAIN recTasks : recTasks[r].pc = "creating"

\* C19: when the observation stream raises or ends while listeners are
\* registered, a reconnect attempt creating a new session eventually
\* follows, unless the listeners all leave or the Coordinator is shut down
\* first.
C19_StreamLossLeadsToReconnect ==
    (StreamLost /\ InUse) ~> (Creating \/ _listeners = <<>> \/ ~InUse)

C21_StatusIsLastSnapshot ==
    [][/\ status \in DeviceSnapshots
       /\ status' \in DeviceSnapshots
       /\ status' # status =>
             \E t \in DOMAIN obsTasks :
                 /\ ObserveItem(t, status')
                 /\ round'.snap = status'
       /\ (End \/ CallReconnect \/ RecBegin \/ RecClosed \/ RecCreated
              \/ RecCreateFailed \/ shutdown \/ ShutdownClosed) =>
             status' = status]_vars

\* C21 witness: a snapshot was received and delivered, the stream then
\* ended, one reconnect attempt was cancelled and the next failed to create
\* its session, and shutdown() has returned: the status is still a snapshot.
C21_Witness ==
    /\ status \in DeviceSnapshots
    /\ status = latest_status
    /\ \E t \in DOMAIN obsTasks : obsTasks[t] = "finished"
    /\ Len(recTasks) = 2
    /\ recTasks[1].pc = "cancelled"
    /\ recTasks[2].pc = "finished"
    /\ sessions[recTasks[2].session] = "failed"
    /\ down.pc = "returned"

\* the creation of the entry's client failed: its setup call raised what the
\* timeout or the creation gave it
CreateFailed(st) == st.pc = "raised" /\ st.exc \in {"ConfigEntryNotReady", "CreateError"}

\* C22: when the creation of the client in async_setup_entry is not over
\* after 25 seconds, or raises, the call raises to its caller (nothing else
\* can happen once the 25 seconds are over); it has made one creation call
\* and makes no other, no Coordinator was constructed, no entry data is
\* stored for the entry and its platforms are not set up, then and ever
\* after.
C22_FailedCreateRaisesAndSetsUpNothing ==
    [][\A e \in Entries :
          /\ setup_create_timed_out(e) =>
                 (setup'[e].pc = "raised" /\ setup'[e].exc = "ConfigEntryNotReady")
          /\ setup_create_raised(e) =>
                 (setup'[e].pc = "raised" /\ setup'[e].exc = "CreateError")
          /\ (setup[e].pc = "creating" /\ setup[e].waited = CREATE_TIMEOUT) =>
                 /\ ENABLED setup_create_timed_out(e)
                 /\ setup'[e] # setup[e] => setup_create_timed_out(e)
          /\ CreateFailed(setup'[e]) =>
                 /\ setup'[e].creations = 1
                 /\ ~setup'[e].coordinator
                 /\ e \notin DOMAIN hass_data'
                 /\ e \notin loaded'
          /\ CreateFailed(setup[e]) => setup'[e] = setup[e]]_vars

\* C22 witness: the setup of entry 1 timed out, the creation for entry 2
\* raised; only the entry set up before has data and platforms.
C22_Witness ==
    /\ setup[1].pc = "raised"
    /\ setup[1].exc = "ConfigEntryNotReady"
    /\ setup[2].pc = "raised"
    /\ setup[2].exc = "CreateError"
    /\ DOMAIN hass_data \cap Entries = {}
    /\ loaded \cap Entries = {}

\* the creation calls a reconnect task has made
Creations(task) == {i \in 1..Len(task.log) : task.log[i][1] = "create"}

\* C23: a reconnect attempt calls the creation of a session at most once;
\* an attempt whose creation failed is over and takes no further step; a
\* session is created only by a step of an unfinished attempt, so that with
\* no attempt in flight none is created, and attempts come from reconnect()
\* calls only.
C23_OneCreationPerAttempt ==
    [][/\ \A r \in DOMAIN recTasks' : Cardinality(Creations(recTasks'[r])) <= 1
       /\ \A r \in DOMAIN recTasks :
             _reconnect_create_failed(r) =>
                 /\ recTasks'[r].pc = "finished"
                 /\ Len(sessions') = Len(sessions)
       /\ \A r \in DOMAIN recTasks :
             recTasks[r].pc = "finished" => recTasks'[r] = recTasks[r]
       /\ Len(sessions') # Len(sessions) =>
             \E r \in ActiveRec :
                 /\ \E raises \in BOOLEAN : _reconnect_closed(r, raises)
                 /\ Creations(recTasks[r]) = {}
                 /\ Len(sessions') = Len(sessions) + 1
       /\ Len(recTasks') # Len(recTasks) => CallReconnect]_vars

\* C23 witness: the creation of the first attempt failed; after a second
\* reconnect() call the second attempt is creating another session.
C23_Witness ==
    /\ Len(recTasks) = 2
    /\ recTasks[1].pc = "finished"
    /\ recTasks[1].session # NoSession
    /\ sessions[recTasks[1].session] = "failed"
    /\ recTasks[2].pc = "creating"
    /\ Len(sessions) = 3

\* a snapshot is taken from the stream
Receive == \E t \in DOMAIN obsTasks, s \in DeviceSnapshots : ObserveItem(t, s)

\* C24: while a fan-out round is in progress, no snapshot is stored, no
\* other round begins, and no write command and no reconnect attempt takes
\* a step: the round goes on with its next listener or ends; a round begins
\* only when none is in progress, with the snapshot just stored.
C24_OneRoundAtATime ==
    [][/\ round.open =>
             /\ ~Receive
             /\ status' = status
             /\ round'.open =>
                    /\ round'.task = round.task
                    /\ round'.snap = round.snap
                    /\ round'.i = round.i + 1
             /\ cmd'.pc = cmd.pc
             /\ recTasks' = recTasks
             /\ client' = client
             /\ _task' = _task
       /\ (round'.open /\ round' # round /\ round'.i = 1) =>
             /\ ~round.open
             /\ Receive
             /\ status' = round'.snap]_vars

\* C24 witness: a round is half way through its two listeners while a write
\* command awaits its write and a reconnect task, created after an earlier
\* attempt installed its session, waits for its turn.
C24_Witness ==
    /\ round.open
    /\ Len(_listeners) = 2
    /\ round.i = 2
    /\ cmd.pc = "await"
    /\ Len(recTasks) = 2
    /\ recTasks[1].started # NoTask
    /\ recTasks[2].pc = "pending"

\* the number of times callback c is in the list s
Count(s, c) == Cardinality({i \in 1..Len(s) : s[i] = c})

\* the callback the registration reg was made with
CallbackOf(reg) == (CHOOSE h \in handles : h.reg = reg).cb

\* this step invokes callback c
Invokes(c) ==
    /\ round.open
    /\ round'.open
    /\ Len(round'.calls) = Len(round.calls) + 1
    /\ CallbackOf(round'.calls[Len(round'.calls)].reg) = c

\* an unsubscribe handle is invoked and returns
Unsubscribed(h) == remove_listener(h) /\ lastExc' = "none"

\* C25 as claimed: when the unsubscribe call of a registration has returned,
\* that registration is out of the registry; a registration that is out
\* never comes back, and only registrations in the registry are invoked, by
\* a task that was not cancelled.
C25_UnsubscribedIsNeverInvoked ==
    [][/\ \A h \in handles : Unsubscribed(h) => h.reg \notin Range(regs')
       /\ \A n \in Range(regs') : n \in Range(regs) \/ n = nAdds + 1
       /\ \A c \in Callbacks : Invokes(c) =>
             /\ round'.calls[Len(round'.calls)].reg \in Range(regs)
             /\ obsTasks[round.task] = "observing"]_vars

\* C25 as amended: an unsubscribe call that returns takes one registration
\* of its callback out of the registry; a callback that is not in the
\* registry comes back by async_add_listener only and is not invoked, and
\* invocations are made by a task that was not cancelled.
C25_AbsentCallbackIsNeverInvoked ==
    [][/\ \A h \in handles : Unsubscribed(h) =>
             Count(_listeners', h.cb) = Count(_listeners, h.cb) - 1
       /\ \A c \in Callbacks :
             (c \notin Range(_listeners) /\ c \in Range(_listeners')) =>
                 async_add_listener(c)
       /\ \A c \in Callbacks : Invokes(c) =>
             /\ c \in Range(_listeners)
             /\ obsTasks[round.task] = "observing"]_vars

\* C25 witness: the listener has left and its task was cancelled; a
\* reconnect restarted the observation, whose task has received a snapshot
\* and invokes nobody.
C25_Witness ==
    /\ nAdds >= 1
    /\ _listeners = <<>>
    /\ obsTasks[1] = "cancelled"
    /\ round.open
    /\ round.calls = <<>>
    /\ \E r \in DOMAIN recTasks : recTasks[r].started = round.task

(***************************************************************************)
(* The claims on the tables and the commands of the fan entities.          *)
(***************************************************************************)
\* the classes of the chain whose body defines key in its table attribute,
\* as positions in the method resolution order (1 is the most derived)
Definers(mro, attribute, key) ==
    {c \in 1..Len(mro) :
        /\ attribute \in DOMAIN mro[c].own
        /\ \E i \in 1..Len(mro[c].own[attribute]) : mro[c].own[attribute][i][1] = key}

\* every key some class of the chain defines in its table attribute
DefinedKeys(mro, attribute) ==
    UNION {Range(Keys(mro[c].own[attribute])) :
              c \in {d \in 1..Len(mro) : attribute \in DOMAIN mro[d].own}}

\* table is the layered merge of the chain's tables
IsLayeredMerge(table, mro, attribute) ==
    /\ Range(Keys(table)) = DefinedKeys(mro, attribute)
    /\ Len(table) = Cardinality(DefinedKeys(mro, attribute))
    /\ \A key \in DefinedKeys(mro, attribute) :
          LET definers == Definers(mro, attribute, key)
              most_derived == CHOOSE c \in definers : \A d \in definers : c <= d
          IN  Get(table, key) = Get(mro[most_derived].own[attribute], key)

\* C27: the preset-mode table and the speed table of a constructed entity
\* are the layered merge of the tables of its class chain: each holds every
\* key a class of the chain defines, once, with the pattern of the most
\* derived class that defines the key; the key lists are the tables' keys.
C27_TablesAreLayeredMerge ==
    fan.constructed =>
        /\ IsLayeredMerge(fan._available_preset_modes, fan.mro, "AVAILABLE_PRESET_MODES")
        /\ IsLayeredMerge(fan._available_speeds, fan.mro, "AVAILABLE_SPEEDS")
        /\ fan._preset_modes = Keys(fan._available_preset_modes)
        /\ fan._speeds = Keys(fan._available_speeds)

\* C27 witness: a class derived from PhilipsAC1214 redefines TURBO and adds
\* MANUAL: the merged table has the derived TURBO, the MANUAL preset and the
\* model's NIGHT.
C27_Witness ==
    /\ fan.constructed
    /\ Len(fan.mro) = 5
    /\ fan.mro[1].name = "Derived"
    /\ Get(fan._available_preset_modes, "TURBO") = [MODE |-> "M"]
    /\ Get(fan._available_preset_modes, "MANUAL") = [MODE |-> "M", SPEED |-> "1"]
    /\ Get(fan._available_preset_modes, "NIGHT") = [MODE |-> "N"]
    /\ Len(fan._available_preset_modes) = 8

\* the presets of table whose pattern the snapshot matches in full, as
\* positions in the table
FullMatches(table, device_status) ==
    {i \in 1..Len(table) :
        \A k \in DOMAIN table[i][2] :
            k \in DOMAIN device_status /\ device_status[k] = table[i][2][k]}

\* C30: the preset_mode property returns a preset only if the snapshot has
\* every key of its pattern with the pattern's value, returns the first such
\* preset of the table, and returns None exactly when no preset matches.
C30_PresetModeIsFirstFullMatch ==
    fan.preset_mode # "unread" =>
        LET table == fan._available_preset_modes
            matches == FullMatches(table, fan.device_status)
        IN  /\ fan.preset_mode = NoPreset <=> matches = {}
            /\ fan.preset_mode # NoPreset =>
                  \E i \in matches :
                      /\ table[i][1] = fan.preset_mode
                      /\ \A j \in matches : i <= j

\* C30 witness: the snapshot matches three presets of the table and the
\* property returned the first of them.
C30_Witness ==
    /\ fan.preset_mode = "SPEED_1"
    /\ Cardinality(FullMatches(fan._available_preset_modes, fan.device_status)) = 3

\* the one-key pattern a power write sends
PowerWrite(value) == KEY_PHILIPS_POWER :> value

\* the speed a non-zero percentage stands for: the speeds share the range
\* 1..100 evenly, in the order of the speed table
SpeedOf(percentage) ==
    LET n == Len(AVAILABLE_SPEEDS)
    IN  AVAILABLE_SPEEDS[CHOOSE i \in 1..n :
                            /\ percentage * n <= i * 100
                            /\ percentage * n > (i - 1) * 100]

\* the command just called hands data to the device client and nothing else
SendsOnly(data) == cmd'.pc = "await" /\ cmd'.data = data

\* the command just called returns without a request
SendsNothing == cmd'.pc = "returned" /\ cmd'.data = <<>>

\* what setting the preset p does: it sends p's pattern, stores it and
\* notifies; nothing when the table has no such preset
SetsPreset(p) ==
    IF \E i \in 1..Len(AVAILABLE_PRESET_MODES) : AVAILABLE_PRESET_MODES[i][1] = p
      THEN LET i == CHOOSE j \in 1..Len(AVAILABLE_PRESET_MODES) :
                        AVAILABLE_PRESET_MODES[j][1] = p
           IN  /\ SendsOnly(AVAILABLE_PRESET_MODES[i][2])
               /\ cmd'.store = AVAILABLE_PRESET_MODES[i][2]
      ELSE SendsNothing

\* what setting a non-zero percentage does: it sends the pattern of the
\* speed the percentage stands for
SetsSpeed(percentage) == SendsOnly(SpeedOf(percentage)[2])

\* C28: async_turn_on with a preset mode does what setting that preset does,
\* whatever the percentage; without a preset mode and with a non-zero
\* percentage it does what setting that percentage does; otherwise it sends
\* the power-on value alone, and when the write has succeeded the status
\* holds the power-on value and the entity's callback has run.
C28_TurnOnIssuesOneKindOfRequest ==
    [][/\ \A pct \in CommandPercentages \cup {NoPercentage},
             p \in PresetArgs \cup {NoPreset} :
             Call(async_turn_on(pct, p)) =>
                 IF p # NoPreset THEN SetsPreset(p)
                 ELSE IF pct \notin {NoPercentage, 0} THEN SetsSpeed(pct)
                 ELSE /\ SendsOnly(PowerWrite(STATE_POWER_ON))
                      /\ cmd'.store = PowerWrite(STATE_POWER_ON)
                      /\ cmd'.notify
       /\ (cmd.pc = "await" /\ cmd.data = PowerWrite(STATE_POWER_ON)
              /\ cmd'.result = "ok") =>
             /\ status'[KEY_PHILIPS_POWER] = STATE_POWER_ON
             /\ latest_status' = status'
             /\ cmd'.own = 1
       /\ (cmd.pc = "await" /\ cmd'.pc = "await") => cmd'.data = cmd.data]_vars

\* C28 witness: the device is off, async_turn_on was called and its write of
\* the power-on value has succeeded.
C28_Witness ==
    /\ cmd.pc = "returned"
    /\ cmd.result = "ok"
    /\ cmd.data = PowerWrite(STATE_POWER_ON)
    /\ cmd.status0[KEY_PHILIPS_POWER] = STATE_POWER_OFF
    /\ status[KEY_PHILIPS_POWER] = STATE_POWER_ON

\* C29: async_set_percentage(0) sends the power key with the off value and
\* nothing else; a non-zero percentage sends the pattern of the one speed it
\* stands for, in which the power key does not have the off value.
C29_PercentageZeroTurnsOff ==
    [][\A pct \in CommandPercentages :
          Call(async_set_percentage(pct)) =>
              IF pct = 0
                THEN SendsOnly(PowerWrite(STATE_POWER_OFF))
                ELSE /\ SetsSpeed(pct)
                     /\ \A k \in DOMAIN cmd'.data :
                            ~(k = KEY_PHILIPS_POWER /\ cmd'.data[k] = STATE_POWER_OFF)]_vars

\* C29 witness: async_set_percentage(0) has turned the device off.
C29_Witness ==
    /\ cmd.pc = "returned"
    /\ cmd.result = "ok"
    /\ cmd.data = PowerWrite(STATE_POWER_OFF)
    /\ cmd.status0[KEY_PHILIPS_POWER] = STATE_POWER_ON
    /\ status[KEY_PHILIPS_POWER] = STATE_POWER_OFF

\* the writes that set a mode
IsModeWrite(w) == "MODE" \in DOMAIN w.data

\* C26: a command of the AC1214 called while the device is off has sent the
\* power-on write as its first write, so before any mode pattern; and every
\* pattern with a MODE other than "A" that was sent while the MODE of the
\* status was not "M" comes right after the ALLERGEN pattern.
C26_PowerOnFirstAndAllergenBefore ==
    /\ (fan.pc # "idle" /\ ~fan.was_on) =>
          /\ Len(fan.sent) >= 1
          /\ fan.sent[1].data = [POWER |-> POWER_MAP_SWITCH_ON]
    /\ \A i \in 1..Len(fan.sent) :
          (/\ IsModeWrite(fan.sent[i])
           /\ fan.sent[i].data["MODE"] # "A"
           /\ fan.sent[i].mode # "M") =>
              /\ i > 1
              /\ fan.sent[i - 1].data = Get(AC1214_PRESET_MODES, "ALLERGEN")

\* C26 witness: async_turn_on with a speed preset was called while the
\* device was off in mode "P"; the power-on write came first, then the
\* ALLERGEN pattern, then the pattern of the preset.
C26_Witness ==
    /\ fan.pc = "done"
    /\ fan.request = "async_turn_on"
    /\ ~fan.was_on
    /\ Len(fan.sent) >= 3
    /\ fan.sent[1].data = [POWER |-> POWER_MAP_SWITCH_ON]
    /\ fan.sent[Len(fan.sent) - 1].data = Get(AC1214_PRESET_MODES, "ALLERGEN")
    /\ fan.sent[Len(fan.sent)].data = Get(AC1214_PRESET_MODES, "SPEED_1")
    /\ fan.sent[Len(fan.sent)].mode # "M"

(***************************************************************************)
(* The claims on unload, shutdown, re-entrant callbacks and the power-on   *)
(* writes of the AC1214.                                                    *)
(***************************************************************************)
\* the power-on writes among the writes of the command of the AC1214
PowerOnWrites ==
    {i \in 1..Len(fan.sent) : fan.sent[i].data = [POWER |-> POWER_MAP_SWITCH_ON]}

\* C37: one command of the AC1214 sends the power-on write at most once, and
\* async_set_percentage(0), the request to switch off, sends none.
C37_PowerOnAtMostOnce ==
    /\ Cardinality(PowerOnWrites) <= 1
    /\ (fan.request = "async_set_percentage" /\ fan.percentage = 0) =>
          PowerOnWrites = {}

\* the pattern a command of the AC1214 is asked for: the pattern of its
\* preset mode, or of the speed its percentage stands for
TargetPattern ==
    IF fan.request = "async_set_preset_mode"
      THEN Get(AC1214_PRESET_MODES, fan.preset_mode)
      ELSE Get(AC1214_SPEEDS,
               percentage_to_ordered_list_item(Keys(AC1214_SPEEDS), fan.percentage))

\* the command of the AC1214 is async_set_preset_mode with a preset of the
\* table, or async_set_percentage with a non-zero percentage
ValidTarget ==
    \/ /\ fan.request = "async_set_preset_mode"
       /\ Get(AC1214_PRESET_MODES, fan.preset_mode) # <<>>
    \/ /\ fan.request = "async_set_percentage"
       /\ fan.percentage # 0

\* C38: async_set_preset_mode and async_set_percentage of the AC1214 with a
\* valid target raise nothing of their own, whatever the snapshot, and when
\* they are over their last write was the target pattern.
C38_ValidTargetIsSent ==
    ValidTarget =>
        /\ fan.exc # "AttributeError"
        /\ fan.pc = "done" =>
              /\ fan.sent # <<>>
              /\ fan.sent[Len(fan.sent)].data = TargetPattern

\* C32: once shutdown() has returned no observation task is active (created
\* and neither cancelled nor over), and no listener is invoked any more.
C32_NoLoopAfterShutdown ==
    /\ [](down.pc = "returned" => ActiveObs = {})
    /\ [][down.pc = "returned" => ~Invoke]_vars

\* a reconnect attempt completes: its creation returned or raised
AttemptCompletes == RecCreated \/ RecCreateFailed

\* C33: when a reconnect attempt completes while the listener registry is
\* empty, no observation task is active afterwards.
C33_ReconnectLeavesNoLoopWithoutListeners ==
    [][(AttemptCompletes /\ _listeners' = <<>>) =>
          \A t \in DOMAIN obsTasks' : obsTasks'[t] \notin ActiveStates]_vars

\* C35: once shutdown() has returned the Coordinator's client is one that
\* was shut down; and from the call of shutdown() on, the client is not
\* replaced, no session is opened and no observation task is created.
C35_ShutdownClientStaysClosed ==
    /\ [](down.pc = "returned" => sessions[client] = "closed")
    /\ [][down.pc # "no" =>
             /\ client' = client
             /\ \A s \in DOMAIN sessions' :
                    sessions'[s] = "open" => (s \in DOMAIN sessions /\ sessions[s] = "open")
             /\ Len(obsTasks') = Len(obsTasks)]_vars

\* C35 witness: shutdown() has returned; the reconnect attempt it cancelled
\* was awaiting the creation of a session, which was dropped, and the client
\* is still the one the attempt had closed.
C35_Witness ==
    /\ down.pc = "returned"
    /\ _reconnect_task # NoTask
    /\ recTasks[_reconnect_task].pc = "cancelled"
    /\ recTasks[_reconnect_task].session # NoSession
    /\ sessions[recTasks[_reconnect_task].session] = "discarded"
    /\ sessions[client] = "closed"
    /\ _listeners # <<>>

\* C36: a stream item replaces the status wholesale: after it the status is
\* exactly the snapshot delivered, so a key of the old status keeps its
\* value only if the snapshot carries the key with that value.
C36_TickReplacesStatus ==
    [][Item =>
          /\ status' = round'.snap
          /\ \A k \in DOMAIN status :
                 (k \in DOMAIN status' /\ status'[k] = status[k])
                     <=> (k \in DOMAIN round'.snap /\ round'.snap[k] = status[k])]_vars

\* C36 witness: a preset pattern was written and stored in the status, with
\* its key POWER that no snapshot of the device carries; the next stream
\* item has replaced the status and the key is gone, while NEW2_MODE_A,
\* which the snapshot carries with the written value, reads the same.
C36_Witness ==
    /\ round.open
    /\ round.calls = <<>>
    /\ status = round.snap
    /\ "POWER" \in DOMAIN latest_status
    /\ "POWER" \notin DOMAIN status
    /\ latest_status["NEW2_MODE_A"] = status["NEW2_MODE_A"]

\* the invocations of the registration reg in the running round
CallsOf(reg) == {j \in 1..Len(round.calls) : round.calls[j].reg = reg}

\* C34: when the for loop of a round is through, every registration that was
\* in the registry when the round began and still is has been invoked
\* exactly once in the round, whatever the callbacks removed or added.
C34_StableListenersInvokedOnce ==
    (RoundEnds /\ ~round.exc) =>
        \A reg \in Range(round.regs0) \cap Range(regs) :
            Cardinality(CallsOf(reg)) = 1

\* C31: Coordinator.shutdown() is called by async_unload_entry only when
\* every platform has been unloaded, and the entry's data is gone from
\* hass.data only when that shutdown() has returned.
C31_UnloadOrder ==
    /\ down.pc # "no" => unload.unloaded = Len(PLATFORMS)
    /\ 0 \notin DOMAIN hass_data => down.pc = "returned"

\* C31 witness: async_unload_entry has returned, with all platforms
\* unloaded, the Coordinator shut down and the entry's data popped.
C31_Witness ==
    /\ unload.pc = "returned"
    /\ unload.unloaded = Len(PLATFORMS)
    /\ down.pc = "returned"
    /\ 0 \notin DOMAIN hass_data
    /\ 0 \notin loaded
====
